---------------------------- MODULE Spec2Model ----------------------------
(***************************************************************************)
(* PTD Launcher: the resource acquisition and installation pipeline.       *)
(*                                                                         *)
(* Three asset classes are acquired by three Tauri commands:               *)
(*   download_flash  (flash.rs)  - legacy runtime, primary/fallback URL    *)
(*   download_ruffle (ruffle.rs) - emulator runtime, release discovery     *)
(*   download_game   (game.rs)   - a game's .swf file                      *)
(* Each command is an async task.  An action of this model is the code a   *)
(* task runs between two suspension points (.await) or between two file    *)
(* system effects another task can observe.                                *)
(*                                                                         *)
(* Byte counts are in abstract units: MAX_DOWNLOAD_SIZE units stand for    *)
(* the 500 MB limit of flash.rs.                                           *)
(***************************************************************************)
EXTENDS Naturals, Sequences, FiniteSets, TLC

\* ------------------------------------------------------------------ bounds
\* Largest chunk one stream read can yield.
MaxChunk == 2
\* Largest Content-Length a response declares (0 stands for "none declared").
MaxTotal == 3
\* Largest body a server sends in the model.
MaxBody == 3
\* Largest reading of the wall clock (seconds) in the model.
MaxClock == 2

\* const MAX_DOWNLOAD_SIZE: u64 = 500 * 1024 * 1024, in units.
MAX_DOWNLOAD_SIZE == 2

\* ------------------------------------------------------------- vocabulary
Classes == {"flash", "ruffle", "game"}
OSes == {"windows", "macos", "linux"}
\* config.game_urls of AppConfig::default (two of its six entries).
GameCatalog == {"PTD1", "PTD2"}
\* Game ids a caller can pass: the catalog's and one that is not in it.
GameIds == GameCatalog \cup {"PTD9"}

\* A path with no file; Option::None of a string.
Absent == [kind |-> "absent"]
None == "None"

\* FlashPlayerConfig.fallback_version of AppConfig::default.
FallbackVersion == "32.0.0.465"

VARIABLES
    os,           \* the target_os the program was built for
    fallback_url, \* config.flash_player.<os>.fallback_url: None or a URL
    appDirOk,     \* whether get_app_dir() resolves (APPDATA / home directory)
    initial,      \* the disk and the ledger as the program found them
    pc,           \* [class -> position of the class's acquisition task]
    attempt,      \* [class -> URL of the download attempt in progress]
    total,        \* [class -> content_length().unwrap_or(0) of the attempt]
    downloaded,   \* [class -> running byte count of the attempt]
    result,       \* [class -> what the command returned, and at which stage]
    local,        \* [class -> the task's other locals]
    files,        \* [path -> Absent or the file's content]
    mounted,      \* whether a disk image is attached at the scratch mount point
    versionFile,  \* Games/version.json: absent, unparsable or a GameVersions
    clock,        \* the last reading of chrono::Utc::now().timestamp()
    events,       \* [class -> summary of the "download-progress" events emitted]
    requests,     \* [class -> the URLs the acquisition asked for, in order]
    ret,          \* [class -> value the last downloader call returned]
    settings,     \* the Mutex<Settings> value
    lastPath,     \* the last settings or path command: its inputs and result
    mutex,        \* the Mutex around the settings: held, poisoned
    running,      \* the settings or path command in progress, if any
    settingsFile, \* Flash/settings.json: None or the Settings it holds
    calls         \* [invocation -> position of a download_flash called twice]

vars == << os, fallback_url, appDirOk, initial, pc, attempt, total, downloaded, result,
           local, files, mounted, versionFile, clock, events, requests, ret,
           settings, lastPath, mutex, running, settingsFile, calls >>

envVars == << os, fallback_url, appDirOk, initial >>
resolveVars == << settings, lastPath, mutex, running, settingsFile >>
lockVars == << mutex, running >>

\* ------------------------------------------------------------------ paths
\* flash_dir.join(filename) of download_flash.
FlashDownloadPath ==
    CASE os = "windows" -> "Flash/flashplayer_sa.exe"
      [] os = "macos"   -> "Flash/flash_player.dmg"
      [] os = "linux"   -> "Flash/flash_player.tar.gz"

\* dest.with_extension("part"): the last extension is replaced.
WithExtensionPart(p) ==
    CASE p = "Flash/flashplayer_sa.exe"  -> "Flash/flashplayer_sa.part"
      [] p = "Flash/flash_player.dmg"    -> "Flash/flash_player.part"
      [] p = "Flash/flash_player.tar.gz" -> "Flash/flash_player.tar.part"

\* flash_dir.join(config.flash_player.<os>.filename).
FlashBin ==
    CASE os = "windows" -> "Flash/flashplayer_sa.exe"
      [] os = "macos"   -> "Flash/Flash Player.app"
      [] os = "linux"   -> "Flash/flashplayer"

\* ruffle_dir.join(filename): "ruffle.exe" on windows, "ruffle" elsewhere.
RuffleBin == IF os = "windows" THEN "Ruffle/ruffle.exe" ELSE "Ruffle/ruffle"

\* games_dir.join(format!("{}.swf", game_id)).
GamePath(id) ==
    CASE id = "PTD1" -> "Games/PTD1.swf"
      [] id = "PTD2" -> "Games/PTD2.swf"
      [] OTHER       -> "Games/PTD9.swf"

\* get_games_dir(): the directory download_game creates.
GamesDir == "Games"

\* ruffle_dir.join(archive_name), archive_name the URL's last path segment.
RuffleArchive(suffix) ==
    CASE suffix = ".zip"    -> "Ruffle/ruffle.zip"
      [] suffix = ".tar.gz" -> "Ruffle/ruffle.tar.gz"
      [] suffix = ".tgz"    -> "Ruffle/ruffle.tgz"
      [] OTHER              -> "Ruffle/ruffle.bin"

\* std::env::temp_dir().join("ptd_flash_mount")
MountPoint == "tmp/ptd_flash_mount"

CustomFlash == "custom/flashplayer"
CustomRuffle == "custom/ruffle"

Paths ==
    { "Flash/flashplayer_sa.exe", "Flash/flash_player.dmg",
      "Flash/flash_player.tar.gz", "Flash/flashplayer_sa.part",
      "Flash/flash_player.part", "Flash/flash_player.tar.part",
      "Flash/Flash Player.app", "Flash/flashplayer",
      "Ruffle/ruffle.exe", "Ruffle/ruffle",
      "Ruffle/ruffle.zip", "Ruffle/ruffle.tar.gz", "Ruffle/ruffle.tgz",
      "Ruffle/ruffle.bin",
      "Games/PTD1.swf", "Games/PTD2.swf", "Games/PTD9.swf",
      GamesDir, MountPoint, CustomFlash, CustomRuffle }

\* A file: its byte length, whether it holds a whole response body (or a
\* whole extracted binary), and its owner-execute bit.
NewFile == [kind |-> "file", len |-> 0, complete |-> FALSE, exec |-> FALSE]
Exists(p) == files[p] # Absent

\* -------------------------------------------------------------- results
NoResult == [kind |-> "none", val |-> ""]
\* A command's return value, with the stage the command was in.
NotReturned == [kind |-> "none", val |-> "", at |-> ""]
Ok(v) == [kind |-> "ok", val |-> v]
Err(m) == [kind |-> "err", val |-> m]

\* HTTP statuses a server answers with; is_success() is 200..299.
Statuses == {200, 404, 500}
IsSuccess(status) == status >= 200 /\ status < 300
HttpError(status) ==
    CASE status = 404 -> "HTTP error: 404 Not Found"
      [] status = 500 -> "HTTP error: 500 Internal Server Error"
      [] OTHER        -> "HTTP error"

\* The Err of get_app_dir().
AppDirError ==
    IF os = "windows" THEN "Failed to get APPDATA"
    ELSE "Failed to get home directory"

\* ---------------------------------------------------------------- events
\* A "download-progress" event (struct DownloadProgress).
Event(item, progress, dl, tot, status) ==
    [item |-> item, progress |-> progress, downloaded |-> dl, total |-> tot,
     status |-> status]
Milestone(item, progress, status) == Event(item, progress, 0, 0, status)

\* ------------------------------------------------------------ f64
\* IEEE 754 binary64 arithmetic on positive values, round to nearest, ties
\* to even.  A value is [m |-> its significand, MantissaBits bits of which
\* the first is 1, e |-> the exponent of the last bit]: m * 2^e.
MantissaBits == 53

\* The k-bit binary writing of n < 2^k, and the number a writing stands for.
ToBits(n, k) == [i \in 1..k |-> (n \div 2^(k - i)) % 2]

RECURSIVE Value(_)
Value(bits) ==
    IF Len(bits) = 0 THEN 0
    ELSE IF Len(bits) = 1 THEN bits[1]
    ELSE LET half == Len(bits) \div 2
         IN  Value(SubSeq(bits, 1, half)) * 2^(Len(bits) - half)
             + Value(SubSeq(bits, half + 1, Len(bits)))

\* The writing of the next number: one bit longer if every bit was 1.
Successor(bits) ==
    IF \A i \in 1..Len(bits) : bits[i] = 1
    THEN << 1 >> \o [i \in 1..Len(bits) |-> 0]
    ELSE LET z == CHOOSE i \in 1..Len(bits) :
                      bits[i] = 0 /\ \A k \in (i + 1)..Len(bits) : bits[k] = 1
         IN  [i \in 1..Len(bits) |->
                 IF i < z THEN bits[i] ELSE IF i = z THEN 1 ELSE 0]

\* The f64 nearest to an exact result: bits is its significand (first bit
\* 1, at least MantissaBits bits), e the exponent of its last bit, sticky
\* whether the result has non-zero bits beyond them.
Rounded(bits, e, sticky) ==
    LET kept   == SubSeq(bits, 1, MantissaBits)
        rest   == SubSeq(bits, MantissaBits + 1, Len(bits))
        guard  == Len(rest) > 0 /\ rest[1] = 1
        beyond == sticky \/ \E i \in 2..Len(rest) : rest[i] = 1
        m      == IF guard /\ (beyond \/ kept[MantissaBits] = 1)
                  THEN Successor(kept) ELSE kept
    IN  IF Len(m) > MantissaBits
        THEN [m |-> SubSeq(m, 1, MantissaBits), e |-> e + Len(rest) + 1]
        ELSE [m |-> m, e |-> e + Len(rest)]

\* The least k with a * 2^k >= b.
RECURSIVE Shifts(_, _)
Shifts(a, b) == IF a >= b THEN 0 ELSE 1 + Shifts(2 * a, b)

\* 2^k modulo d, by squaring.
RECURSIVE PowMod(_, _)
PowMod(k, d) ==
    IF k = 0 THEN 1 % d
    ELSE LET half == PowMod(k \div 2, d)
         IN  (half * half * (1 + (k % 2))) % d

\* Long division: the first k bits of r / d after the point, for r < d (bit
\* i is set if twice the remainder left by the bits before it reaches d),
\* and the remainder they leave.
Remainder(r, d, k) == (r * PowMod(k, d)) % d
LongDivision(r, d, k) ==
    [i \in 1..k |-> IF 2 * Remainder(r, d, i - 1) >= d THEN 1 ELSE 0]

\* a as f64 / b as f64, for integers 1 <= a, b (exact as f64): the operands
\* are scaled so that the quotient lies in [1, 2), then divided.  (The
\* scaled divisor stays below 2^15 within the bounds, and with it every
\* product of PowMod and Remainder below 2^31.)
F64Div(a, b) ==
    LET up   == Shifts(a, b)
        down == IF a >= b THEN Shifts(b, a + 1) - 1 ELSE 0
        an   == a * 2^up
        bn   == b * 2^down
    IN  Rounded(<< 1 >> \o LongDivision(an - bn, bn, MantissaBits),
                down - up - MantissaBits,
                Remainder(an - bn, bn, MantissaBits) # 0)

\* x * 100.0: the exact product of the significand and 100, computed on
\* three 18-bit limbs of the significand, then rounded.
F64Mul100(x) ==
    LET limb(n) == Value(SubSeq(<< 0 >> \o x.m, 18 * n - 17, 18 * n))
        low     == limb(3) * 100
        mid     == limb(2) * 100 + (low \div 2^18)
        high    == limb(1) * 100 + (mid \div 2^18)
        width   == CHOOSE w \in 1..31 : 2^(w - 1) <= high /\ high < 2^w
    IN  Rounded(ToBits(high, width) \o ToBits(mid % (2^18), 18)
                                    \o ToBits(low % (2^18), 18),
                x.e, FALSE)

\* x as u32: truncation toward zero (the cast saturates at u32::MAX, which
\* a quotient of at most 1 times 100 does not reach).
F64AsU32(x) ==
    IF MantissaBits + x.e <= 0 THEN 0
    ELSE Value(SubSeq(x.m, 1, MantissaBits + x.e))

\* ((downloaded as f64 / total as f64) * 100.0) as u32 if total > 0, else 0.
Percent(dl, tot) ==
    IF tot > 0 /\ dl > 0 THEN F64AsU32(F64Mul100(F64Div(dl, tot))) ELSE 0

\* ---------------------------------------------------------------- config.rs
\* GameVersions::default(): empty strings and an empty map (0: no entry).
DefaultVersions ==
    [flash_player |-> "", ruffle |-> "", games |-> [g \in GameCatalog |-> 0]]

\* ------------------------------------------------------- task bookkeeping
NoLocal == [id |-> None, found |-> NoResult, tag |-> None, suffix |-> None,
            filename |-> None, primary_attempt |-> NoResult,
            versions |-> DefaultVersions]
NoVersionFile == [kind |-> "absent", v |-> DefaultVersions]
CorruptVersionFile == [kind |-> "corrupt", v |-> DefaultVersions]
VersionFileOf(v) == [kind |-> "ok", v |-> v]

\* The frontend invoking one command twice; a call not made yet.
Invocations == {1, 2}
NoCall == [at |-> "Idle", offset |-> 0, handle |-> None, ret |-> NoResult]

\* The events one command has emitted so far: the last one, the number of
\* milestone events, the number of streaming events of each attempt, and
\* whether the delivery of one of them failed.
NoEvents ==
    [last |-> Milestone("", 0, ""), milestones |-> 0,
     streamed |-> [primary |-> 0, fallback |-> 0], lost |-> FALSE]

\* let _ = window.emit("download-progress", e): delivery is not checked.
Emitted(log, which, e) ==
    IF e.status = "Downloading..."
    THEN [log EXCEPT !.last = e, !.streamed[which] = @ + 1]
    ELSE [log EXCEPT !.last = e, !.milestones = @ + 1]
\* window.emit returns Ok or Err as the delivery went.
Sent(c, log) ==
    \E ok \in BOOLEAN :
       events' = [events EXCEPT ![c] = IF ok THEN log
                                       ELSE [log EXCEPT !.lost = TRUE]]
Emit(c, e) == Sent(c, Emitted(events[c], attempt[c], e))

\* A command that hands a failed delivery to its caller.
Propagated(r, lost) == IF lost THEN [kind |-> "err", val |-> "emit failed"] ELSE r

\* let _ = ...: the Result of emit is dropped and what the command was
\* about to return stands.
Discarded(r, lost) == r
Goto(c, p) == pc' = [pc EXCEPT ![c] = p]
Return(c, r) ==
    result' = [result EXCEPT ![c] = [kind |-> r.kind, val |-> r.val, at |-> pc[c]]]

\* A command fails: the Err is its return value.
Fail(c, msg) == Goto(c, "Failed") /\ Return(c, Err(msg))

\* A downloader call returns r to the command that called it.
DownloaderReturns(c, r) == Goto(c, "Returned") /\ ret' = [ret EXCEPT ![c] = r]

\* let _ = fs::remove_file(&path): the file is removed, or the removal
\* fails and nobody looks.
RemoveArchive(fs, path, removed) ==
    IF removed THEN [fs EXCEPT ![path] = Absent] ELSE fs

\* response.bytes_stream(): the HTTP client yields no more body bytes than
\* the Content-Length the response declared (0: none declared).
WithinDeclared(dl, tot) == tot > 0 => dl <= tot

\* The locals of a call that has returned are gone.
Dropped(f, c) == [f EXCEPT ![c] = 0]

\* ===================================================================
\* flash.rs: download_file_with_progress
\* ===================================================================
FlashTmp == WithExtensionPart(FlashDownloadPath)

\* if total > MAX_DOWNLOAD_SIZE { return Err(..) }, before any file is made.
FlashTooLarge(tot) == tot > MAX_DOWNLOAD_SIZE

\* if downloaded > MAX_DOWNLOAD_SIZE, checked before the chunk is written.
FlashExceeded(dl) == dl > MAX_DOWNLOAD_SIZE

\* A temp file that is opened as it is found, and created only if absent.
OpenTemp == [files EXCEPT ![FlashTmp] = IF Exists(FlashTmp) THEN @ ELSE NewFile]

\* fs::File::create(&tmp_path): the file is created, or truncated.
FlashCreateTemp == [files EXCEPT ![FlashTmp] = NewFile]

\* A publication that copies the temp file and leaves it behind.
CopyPublish ==
    [files EXCEPT ![FlashDownloadPath] = [files[FlashTmp] EXCEPT !.complete = TRUE]]

\* fs::rename(&tmp_path, dest): dest is replaced by the temp file, whose
\* content is then the whole body; the temp path is gone.
FlashPublish ==
    [files EXCEPT ![FlashDownloadPath] = [files[FlashTmp] EXCEPT !.complete = TRUE],
                  ![FlashTmp] = Absent]

\* From the call to the first stream.next().await: the client is built,
\* the request sent, the status checked, the declared length checked and
\* the temp file created.
FlashResponse ==
    /\ pc["flash"] = "Downloading"
    /\ \E outcome \in {"build", "transport", "answered"}, status \in Statuses,
          declared \in 0..MaxTotal, created \in BOOLEAN :
         \/ /\ outcome = "build" /\ status = 200 /\ declared = 0 /\ created
            /\ DownloaderReturns("flash", Err("Failed to build HTTP client"))
            /\ UNCHANGED << files, total >>
         \/ /\ outcome = "transport" /\ status = 200 /\ declared = 0 /\ created
            /\ DownloaderReturns("flash", Err("Request failed"))
            /\ UNCHANGED << files, total >>
         \/ /\ outcome = "answered" /\ ~IsSuccess(status) /\ declared = 0 /\ created
            /\ DownloaderReturns("flash", Err(HttpError(status)))
            /\ UNCHANGED << files, total >>
         \/ /\ outcome = "answered" /\ IsSuccess(status) /\ FlashTooLarge(declared)
            /\ created
            /\ DownloaderReturns("flash", Err("Remote file too large"))
            /\ total' = [total EXCEPT !["flash"] = declared]
            /\ UNCHANGED files
         \/ /\ outcome = "answered" /\ IsSuccess(status) /\ ~FlashTooLarge(declared)
            /\ ~created
            /\ DownloaderReturns("flash", Err("Failed to create temp file"))
            /\ total' = [total EXCEPT !["flash"] = declared]
            /\ UNCHANGED files
         \/ /\ outcome = "answered" /\ IsSuccess(status) /\ ~FlashTooLarge(declared)
            /\ created
            /\ files' = FlashCreateTemp
            /\ total' = [total EXCEPT !["flash"] = declared]
            /\ Goto("flash", "Streaming")
            /\ UNCHANGED ret
    /\ UNCHANGED << envVars, attempt, downloaded, result, local, mounted,
                    versionFile, clock, events, requests, resolveVars, calls >>

\* A counter that is set to the chunk's length.
ChunkLength(dl, n) == n

\* downloaded += chunk.len() as u64
Counted(dl, n) == dl + n

\* One iteration of the while loop on Some(Ok(chunk)) of n bytes: count,
\* check the limit, write, emit.  write_all may fail after k < n bytes;
\* let _ = fs::remove_file(&tmp_path) removes the temp file, or fails unseen.
FlashChunk ==
    /\ pc["flash"] = "Streaming"
    /\ \E n \in 1..MaxChunk, k \in 0..MaxChunk, removed \in BOOLEAN :
         LET dl == Counted(downloaded["flash"], n) IN
         /\ dl <= MaxBody
         /\ WithinDeclared(dl, total["flash"])
         /\ k <= n
         /\ FlashExceeded(dl) \/ removed
         /\ downloaded' = [downloaded EXCEPT !["flash"] = dl]
         /\ IF FlashExceeded(dl)
            THEN /\ k = n
                 /\ files' = RemoveArchive(files, FlashTmp, removed)
                 /\ DownloaderReturns("flash",
                        Err("Download exceeded maximum allowed size"))
                 /\ UNCHANGED events
            ELSE /\ files' = [files EXCEPT ![FlashTmp].len = @ + k]
                 /\ IF k < n
                    THEN /\ DownloaderReturns("flash", Err("Write error"))
                         /\ UNCHANGED events
                    ELSE /\ Emit("flash", Event("flash_player",
                                Percent(dl, total["flash"]), dl, total["flash"],
                                "Downloading..."))
                         /\ UNCHANGED << pc, ret >>
    /\ UNCHANGED << envVars, attempt, total, result, local, mounted, versionFile,
                    clock, requests, resolveVars, calls >>

\* The loop on Some(Err(e)): the connection broke, or the body ended short
\* of the declared length.
FlashChunkError ==
    /\ pc["flash"] = "Streaming"
    /\ DownloaderReturns("flash", Err("Download error"))
    /\ UNCHANGED << envVars, attempt, total, downloaded, result, local,
                    files, mounted, versionFile, clock, events, requests,
                    resolveVars, calls >>

\* The stream ended (None): flush (a no-op on a File) and rename.  A body
\* with a declared length ends only once that many bytes have arrived.
FlashStreamEnd ==
    /\ pc["flash"] = "Streaming"
    /\ total["flash"] > 0 => downloaded["flash"] >= total["flash"]
    /\ \E renamed \in BOOLEAN :
         IF renamed
         THEN /\ files' = FlashPublish
              /\ DownloaderReturns("flash", Ok(""))
         ELSE /\ DownloaderReturns("flash", Err("Failed to rename temp file"))
              /\ UNCHANGED files
    /\ UNCHANGED << envVars, attempt, total, downloaded, result, local,
                    mounted, versionFile, clock, events, requests, resolveVars, calls >>

\* ===================================================================
\* flash.rs: download_flash
\* ===================================================================
PrimaryUrl == "primary_url"

\* A coordinator that retries whatever the primary attempt returned.
AlwaysRetry(primary_attempt) == TRUE

\* A coordinator that reports a failed primary attempt in its own words.
GenericFailure(primary_attempt) == "Download failed"

\* A coordinator that reports the primary attempt's error after the
\* fallback attempt failed.
PrimaryErrorAgain(primary_attempt, fallback_attempt) == primary_attempt.val

\* if primary_attempt.is_err() { ... }
NeedsFallback(primary_attempt) == primary_attempt.kind = "err"

\* if let Some(fallback) = fallback_url { retry } else { return Err(..) }
HasFallback(fb) == fb # None

\* primary_attempt.err().unwrap_or_else(|| "Download failed")
PrimaryFailure(primary_attempt) ==
    IF primary_attempt.kind = "err" THEN primary_attempt.val
    ELSE "Download failed"

\* download_file_with_progress(.., fallback, ..).await? : the fallback
\* attempt's own error is what the command returns.
FallbackFailure(primary_attempt, fallback_attempt) == fallback_attempt.val

\* The stage after a successful download: windows downloads the bare
\* executable, macos and linux an archive that is extracted.
FlashAfterDownload == IF os = "windows" THEN "Publishing" ELSE "Extracting"

\* Up to the first suspension: resolve and create the directory, emit
\* "Starting download...", send the GET to the primary URL.
StartFlash ==
    /\ pc["flash"] = "Idle"
    /\ local' = [local EXCEPT !["flash"] = NoLocal]
    /\ ret' = [ret EXCEPT !["flash"] = NoResult]
    /\ \E dirOk \in BOOLEAN :
         IF ~appDirOk \/ ~dirOk
         THEN /\ ~appDirOk => dirOk
              /\ Fail("flash", IF ~appDirOk THEN AppDirError
                               ELSE "Failed to create flash directory")
              /\ events' = [events EXCEPT !["flash"] = NoEvents]
              /\ requests' = [requests EXCEPT !["flash"] = << >>]
              /\ UNCHANGED << attempt, total, downloaded >>
         ELSE /\ UNCHANGED result
              /\ Sent("flash", Emitted(NoEvents, "primary",
                     Milestone("flash_player", 0, "Starting download...")))
              /\ attempt' = [attempt EXCEPT !["flash"] = "primary"]
              /\ requests' = [requests EXCEPT !["flash"] = << PrimaryUrl >>]
              /\ total' = [total EXCEPT !["flash"] = 0]
              /\ downloaded' = [downloaded EXCEPT !["flash"] = 0]
              /\ Goto("flash", "Downloading")
    /\ UNCHANGED << envVars, files, mounted, versionFile, clock, resolveVars, calls >>

\* A notice that goes out as one more streaming event.
NoticeAsStreaming == Event("flash_player", 0, 0, 0, "Downloading...")

\* The event emitted between the two attempts.
FallbackNotice == Milestone("flash_player", 0, "Primary failed, trying fallback...")

\* The primary attempt returned: go on, retry on the fallback URL, or fail.
FlashPrimaryReturned ==
    /\ pc["flash"] = "Returned" /\ attempt["flash"] = "primary"
    /\ total' = Dropped(total, "flash")
    /\ downloaded' = Dropped(downloaded, "flash")
    /\ IF NeedsFallback(ret["flash"])
       THEN IF HasFallback(fallback_url)
            THEN /\ local' = [local EXCEPT !["flash"].primary_attempt = ret["flash"]]
                 /\ Emit("flash", FallbackNotice)
                 /\ attempt' = [attempt EXCEPT !["flash"] = "fallback"]
                 /\ requests' = [requests EXCEPT !["flash"] = Append(@, fallback_url)]
                 /\ Goto("flash", "Downloading")
                 /\ UNCHANGED result
            ELSE /\ Fail("flash", PrimaryFailure(ret["flash"]))
                 /\ UNCHANGED << attempt, requests, events, local >>
       ELSE /\ Goto("flash", FlashAfterDownload)
            /\ UNCHANGED << attempt, requests, events, result, local >>
    /\ UNCHANGED << envVars, files, mounted, versionFile, clock, ret, resolveVars, calls >>

\* The fallback attempt returned: its error is final (the ? operator).
FlashFallbackReturned ==
    /\ pc["flash"] = "Returned" /\ attempt["flash"] = "fallback"
    /\ total' = Dropped(total, "flash")
    /\ downloaded' = Dropped(downloaded, "flash")
    /\ IF ret["flash"].kind = "err"
       THEN Fail("flash", FallbackFailure(local["flash"].primary_attempt, ret["flash"]))
       ELSE Goto("flash", FlashAfterDownload) /\ UNCHANGED result
    /\ UNCHANGED << envVars, attempt, local, files, mounted, versionFile, clock, events,
                    requests, ret, resolveVars, calls >>

\* ===================================================================
\* config.rs: the version ledger (Games/version.json)
\* ===================================================================
\* load_versions(): Ok(default) when the file does not exist, Err when
\* fs::read_to_string fails or the document does not parse, else the
\* parsed document.
load_versions(readable) ==
    CASE versionFile.kind = "absent" -> Ok(DefaultVersions)
      [] ~readable                   -> Err("Failed to read version.json")
      [] versionFile.kind = "ok"     -> Ok(versionFile.v)
      [] OTHER                       -> Err("Failed to parse version.json")

\* load_versions().unwrap_or_default() of the three commands.
LoadedVersions(readable) ==
    IF load_versions(readable).kind = "ok" THEN load_versions(readable).val
    ELSE DefaultVersions

\* What save_versions can do: create_dir_all fails, fs::write fails before
\* or after truncating the file, or the document is written.
SaveOutcomes == {"saved", "dirFailed", "writeFailed", "writeCut"}

\* The file save_versions(v) leaves behind.
SavedFile(outcome, v) ==
    CASE outcome = "saved"    -> VersionFileOf(v)
      [] outcome = "writeCut" -> CorruptVersionFile
      [] OTHER                -> versionFile

\* The Result of save_versions.
save_versions(outcome) ==
    CASE outcome = "saved"     -> Ok("")
      [] outcome = "dirFailed" -> Err("Failed to create games directory")
      [] OTHER                 -> Err("Failed to write version.json")

\* ===================================================================
\* flash.rs: extraction, permissions, ledger
\* ===================================================================
\* A binary an archive put on disk, with the mode bits the archive gave it.
Extracted(exec) == [kind |-> "file", len |-> 1, complete |-> TRUE, exec |-> exec]
\* What a failed unpack may leave of it.
PartlyExtracted == [kind |-> "file", len |-> 0, complete |-> FALSE, exec |-> FALSE]

\* linux: extract_tar_gz(&download_path, &flash_dir)?, then the archive is
\* removed.  The archive holds the binary at the expected path, or not.
FlashExtractTarGz ==
    /\ pc["flash"] = "Extracting" /\ os = "linux"
    /\ \E outcome \in {"failed", "failedPartly", "binary", "noBinary"},
          exec \in BOOLEAN, removed \in BOOLEAN :
         CASE outcome = "failed" ->
                /\ ~exec /\ removed
                /\ Fail("flash", "Failed to extract archive")
                /\ UNCHANGED files
           [] outcome = "failedPartly" ->
                /\ ~exec /\ removed
                /\ Fail("flash", "Failed to extract archive")
                /\ files' = [files EXCEPT ![FlashBin] = PartlyExtracted]
           [] outcome = "binary" ->
                /\ files' = RemoveArchive([files EXCEPT ![FlashBin] = Extracted(exec)],
                                          FlashDownloadPath, removed)
                /\ Goto("flash", "PostProcessing")
                /\ UNCHANGED result
           [] outcome = "noBinary" ->
                /\ ~exec
                /\ files' = RemoveArchive(files, FlashDownloadPath, removed)
                /\ Goto("flash", "PostProcessing")
                /\ UNCHANGED result
    /\ UNCHANGED << envVars, attempt, total, downloaded, local, mounted,
                    versionFile, clock, events, requests, ret, resolveVars, calls >>

\* A permission block that writes the mode back as it read it.
KeepsMode(f) == f

\* perms.set_mode(0o755); fs::set_permissions(&bin, perms)
set_mode(f) == [f EXCEPT !.exec = TRUE]

\* linux: if flash_bin.exists() { metadata()?; set_mode(0o755); set_permissions()? }
FlashMakeExecutable ==
    /\ pc["flash"] = "PostProcessing" /\ os = "linux"
    /\ IF Exists(FlashBin)
       THEN \E outcome \in {"ok", "metadataFailed", "setFailed"} :
              CASE outcome = "ok" ->
                     /\ files' = [files EXCEPT ![FlashBin] = set_mode(@)]
                     /\ Goto("flash", "Publishing")
                     /\ UNCHANGED result
                [] outcome = "metadataFailed" ->
                     /\ Fail("flash", "Failed to get permissions")
                     /\ UNCHANGED files
                [] outcome = "setFailed" ->
                     /\ Fail("flash", "Failed to set permissions")
                     /\ UNCHANGED files
       ELSE /\ Goto("flash", "Publishing")
            /\ UNCHANGED << files, result >>
    /\ UNCHANGED << envVars, attempt, total, downloaded, local, mounted,
                    versionFile, clock, events, requests, ret, resolveVars, calls >>

\* A directory, or an application bundle copied out of a disk image.
Directory == [kind |-> "file", len |-> 1, complete |-> TRUE, exec |-> TRUE]

\* macos: extract_dmg(&download_path, &flash_dir, filename)?, then the
\* archive is removed.  The steps of extract_dmg: create the mount point,
\* hdiutil attach, copy the bundle if the volume holds it (fs_extra's copy
\* with default options does not overwrite: it fails on a bundle that is
\* already installed), hdiutil detach, remove the mount point (which fails,
\* unseen, while the volume is attached).
FlashExtractDmg ==
    /\ pc["flash"] = "Extracting" /\ os = "macos"
    /\ \E outcome \in {"mkdirFailed", "attachFailed", "copyFailed", "copied",
                       "noBundle"},
          detached \in BOOLEAN, removed \in BOOLEAN :
         CASE outcome = "mkdirFailed" ->
                /\ detached /\ removed
                /\ Fail("flash", "Failed to create mount point")
                /\ UNCHANGED << files, mounted >>
           [] outcome = "attachFailed" ->
                /\ detached /\ removed
                /\ Fail("flash", "hdiutil attach failed")
                /\ files' = [files EXCEPT ![MountPoint] = Directory]
                /\ UNCHANGED mounted
           [] outcome = "copyFailed" ->
                /\ detached /\ removed
                /\ Fail("flash", "Failed to copy app")
                /\ files' = [files EXCEPT ![MountPoint] = Directory]
                /\ mounted' = TRUE
           [] outcome \in {"copied", "noBundle"} ->
                /\ outcome = "copied" => ~Exists(FlashBin)
                /\ mounted' = ~detached
                /\ files' = RemoveArchive(
                       [files EXCEPT
                          ![FlashBin] = IF outcome = "copied" THEN Directory ELSE @,
                          ![MountPoint] = IF detached THEN Absent ELSE Directory],
                       FlashDownloadPath, removed)
                /\ Goto("flash", "Publishing")
                /\ UNCHANGED result
    /\ UNCHANGED << envVars, attempt, total, downloaded, local,
                    versionFile, clock, events, requests, ret, resolveVars, calls >>

\* let mut versions = load_versions().unwrap_or_default();
\* versions.flash_player = config.flash_player.fallback_version.clone();
FlashLoadVersions ==
    /\ pc["flash"] = "Publishing"
    /\ \E readable \in BOOLEAN :
         /\ versionFile.kind = "absent" => readable
         /\ local' = [local EXCEPT !["flash"].versions =
               [LoadedVersions(readable) EXCEPT !.flash_player = FallbackVersion]]
    /\ Goto("flash", "Saving")
    /\ UNCHANGED << envVars, attempt, total, downloaded, result, files,
                    mounted, versionFile, clock, events, requests, ret,
                    resolveVars, calls >>

\* save_versions(&versions)?; emit "Download complete"; return the path.
FlashSaveVersions ==
    /\ pc["flash"] = "Saving"
    /\ \E outcome \in SaveOutcomes :
         /\ versionFile' = SavedFile(outcome, local["flash"].versions)
         /\ IF save_versions(outcome).kind = "err"
            THEN /\ Fail("flash", save_versions(outcome).val)
                 /\ UNCHANGED events
            ELSE /\ Emit("flash", Milestone("flash_player", 100, "Download complete"))
                 /\ Goto("flash", "Complete")
                 /\ Return("flash", Discarded(Ok(FlashBin), events'["flash"].lost))
    /\ UNCHANGED << envVars, attempt, total, downloaded, local, files,
                    mounted, clock, requests, ret, resolveVars, calls >>

\* The task is dropped while suspended (the window or the application is
\* closed): it runs no further.
Abort(c) ==
    /\ pc[c] \in {"Locating", "Downloading", "Streaming"}
    /\ Goto(c, "Aborted")
    /\ UNCHANGED << envVars, attempt, total, downloaded, result, local,
                    files, mounted, versionFile, clock, events, requests, ret,
                    resolveVars, calls >>


\* ===================================================================
\* ruffle.rs and game.rs: download_file_with_progress (the same code twice)
\* ===================================================================
\* fs::File::create(dest): the destination itself is created, or truncated.
DirectCreate(dest) == [files EXCEPT ![dest] = NewFile]

\* From send().await to the first stream.next().await: the status check
\* and the creation of the destination file.  No length check is made.
DirectResponse(c, dest) ==
    /\ pc[c] = "Downloading"
    /\ \E outcome \in {"transport", "answered"}, status \in Statuses,
          declared \in 0..MaxTotal, created \in BOOLEAN :
         \/ /\ outcome = "transport" /\ status = 200 /\ declared = 0 /\ created
            /\ DownloaderReturns(c, Err("Request failed"))
            /\ UNCHANGED << files, total >>
         \/ /\ outcome = "answered" /\ ~IsSuccess(status) /\ declared = 0 /\ created
            /\ DownloaderReturns(c, Err(HttpError(status)))
            /\ UNCHANGED << files, total >>
         \/ /\ outcome = "answered" /\ IsSuccess(status) /\ ~created
            /\ DownloaderReturns(c, Err("Failed to create file"))
            /\ total' = [total EXCEPT ![c] = declared]
            /\ UNCHANGED files
         \/ /\ outcome = "answered" /\ IsSuccess(status) /\ created
            /\ files' = DirectCreate(dest)
            /\ total' = [total EXCEPT ![c] = declared]
            /\ Goto(c, "Streaming")
            /\ UNCHANGED ret
    /\ UNCHANGED << envVars, attempt, downloaded, result, local, mounted,
                    versionFile, clock, events, requests, resolveVars, calls >>

\* One iteration of the while loop on Some(Ok(chunk)) of n bytes: write,
\* count, emit.  write_all may fail after k < n bytes.
\* The body is at most body bytes long.
DirectChunkWithin(c, dest, item, body) ==
    /\ pc[c] = "Streaming"
    /\ \E n \in 1..MaxChunk, k \in 0..MaxChunk :
         LET dl == Counted(downloaded[c], n) IN
         /\ dl <= body
         /\ WithinDeclared(dl, total[c])
         /\ k <= n
         /\ files' = [files EXCEPT ![dest].len = @ + k]
         /\ IF k < n
            THEN /\ DownloaderReturns(c, Err("Write error"))
                 /\ UNCHANGED << events, downloaded >>
            ELSE /\ downloaded' = [downloaded EXCEPT ![c] = dl]
                 /\ Emit(c, Event(item, Percent(dl, total[c]), dl, total[c],
                                  "Downloading..."))
                 /\ UNCHANGED << pc, ret >>
    /\ UNCHANGED << envVars, attempt, total, result, local, mounted, versionFile,
                    clock, requests, resolveVars, calls >>

DirectChunk(c, dest, item) == DirectChunkWithin(c, dest, item, MaxBody)

\* The loop on Some(Err(e)).
DirectChunkError(c) ==
    /\ pc[c] = "Streaming"
    /\ DownloaderReturns(c, Err("Download error"))
    /\ UNCHANGED << envVars, attempt, total, downloaded, result, local, files,
                    mounted, versionFile, clock, events, requests, resolveVars, calls >>

\* The stream ended (None): Ok(()).  The destination now holds the body.
DirectStreamEnd(c, dest) ==
    /\ pc[c] = "Streaming"
    /\ total[c] > 0 => downloaded[c] >= total[c]
    /\ files' = [files EXCEPT ![dest].complete = TRUE]
    /\ DownloaderReturns(c, Ok(""))
    /\ UNCHANGED << envVars, attempt, total, downloaded, result, local, mounted,
                    versionFile, clock, events, requests, resolveVars, calls >>

\* ===================================================================
\* ruffle.rs: fetch_latest_nightly
\* ===================================================================
\* An asset of a release: whether its name contains the OS pattern
\* (windows-x86_64.zip, macos-universal.tar.gz, linux-x86_64.tar.gz),
\* whether it contains "extension", and the suffix of the last path segment
\* of its browser_download_url.
target_suffix == IF os = "windows" THEN ".zip" ELSE ".tar.gz"
TargetAsset == [pattern |-> TRUE, extension |-> FALSE, suffix |-> target_suffix]
ChecksumAsset == [pattern |-> TRUE, extension |-> FALSE, suffix |-> ".bin"]
TgzAsset == [pattern |-> TRUE, extension |-> FALSE, suffix |-> ".tgz"]
ExtensionAsset == [pattern |-> TRUE, extension |-> TRUE, suffix |-> target_suffix]
OtherAsset == [pattern |-> FALSE, extension |-> FALSE, suffix |-> ".zip"]

Release(tag, assets) == [tag_name |-> tag, assets |-> assets]

\* The release indexes the GitHub API answers with in the model.
ReleaseIndexes ==
    { << >>,
      << Release("nightly-A", << >>) >>,
      << Release("nightly-A", << TargetAsset >>) >>,
      << Release("nightly-A", << ExtensionAsset, TargetAsset >>) >>,
      << Release("nightly-A", << OtherAsset, ChecksumAsset, TargetAsset >>) >>,
      << Release("nightly-A", << OtherAsset, TgzAsset >>) >>,
      << Release("nightly-A", << ExtensionAsset, OtherAsset >>),
         Release("nightly-B", << TargetAsset >>) >>,
      << Release("nightly-B", << TargetAsset >>),
         Release("nightly-A", << TargetAsset >>) >> }

\* a.name.contains(target_pattern) && !a.name.contains("extension")
Wanted(a) == a.pattern /\ ~a.extension

\* A search that returns the last wanted asset.
FindLast(assets, i) ==
    IF \E k \in i..Len(assets) : Wanted(assets[k])
    THEN CHOOSE k \in i..Len(assets) :
            Wanted(assets[k]) /\ \A m \in (k + 1)..Len(assets) : ~Wanted(assets[m])
    ELSE 0

\* release.assets.iter().find(..): the index of the first wanted asset, 0 if none.
RECURSIVE FindFrom(_, _)
FindFrom(assets, i) ==
    IF i > Len(assets) THEN 0
    ELSE IF Wanted(assets[i]) THEN i
    ELSE FindFrom(assets, i + 1)

\* What a GET of the release index can end in.
IndexAnswers ==
    { [kind |-> k, releases |-> << >>] : k \in {"transport", "status", "parse"} }
    \cup { [kind |-> "index", releases |-> r] : r \in ReleaseIndexes }

\* fetch_latest_nightly(): Ok((url, filename, tag)) or Err.  The url is
\* kept as the suffix of its last path segment.
fetch_latest_nightly(answer) ==
    CASE answer.kind = "transport" -> Err("Failed to fetch releases")
      [] answer.kind = "status"    -> Err("GitHub API error")
      [] answer.kind = "parse"     -> Err("Failed to parse releases")
      [] OTHER ->
           IF Len(answer.releases) = 0 THEN Err("No releases found")
           ELSE LET release == answer.releases[1]
                    i == FindFrom(release.assets, 1)
                IN IF i = 0 THEN Err("No asset found for target")
                   ELSE Ok([suffix |-> release.assets[i].suffix,
                            filename |-> RuffleBin,
                            tag |-> release.tag_name])

\* ===================================================================
\* ruffle.rs: download_ruffle
\* ===================================================================
ReleasesUrl == "https://api.github.com/repos/ruffle-rs/ruffle/releases"
DiscoveredUrl == "browser_download_url"
StaticUrl == "config.ruffle.url"

\* config.ruffle.<os> of AppConfig::default: the url's suffix and filename.
StaticRuffle ==
    [suffix |-> IF os = "windows" THEN ".zip" ELSE ".tar.gz",
     filename |-> RuffleBin]

\* A coordinator that downloads the configured archive whatever the
\* discovery returned.
LocatedStatic(found) ==
    [url |-> StaticUrl, suffix |-> StaticRuffle.suffix,
     filename |-> StaticRuffle.filename, tag |-> "fallback"]

\* match fetch_latest_nightly().await { Ok(info) => info, Err(e) => config }
\* : the (url, filename, version_tag) the download goes on with.
Located(found) ==
    IF found.kind = "ok"
    THEN [url |-> DiscoveredUrl, suffix |-> found.val.suffix,
          filename |-> found.val.filename, tag |-> found.val.tag]
    ELSE [url |-> StaticUrl, suffix |-> StaticRuffle.suffix,
          filename |-> StaticRuffle.filename, tag |-> "fallback"]

RuffleDownloadPath == RuffleArchive(local["ruffle"].suffix)
RuffleInstalled == local["ruffle"].filename

\* Up to the first suspension: resolve and create the directory, emit
\* "Fetching latest nightly...", send the GET of the release index.
StartRuffle ==
    /\ pc["ruffle"] = "Idle"
    /\ local' = [local EXCEPT !["ruffle"] = NoLocal]
    /\ ret' = [ret EXCEPT !["ruffle"] = NoResult]
    /\ attempt' = [attempt EXCEPT !["ruffle"] = "primary"]
    /\ total' = Dropped(total, "ruffle")
    /\ downloaded' = Dropped(downloaded, "ruffle")
    /\ \E dirOk \in BOOLEAN :
         IF ~appDirOk \/ ~dirOk
         THEN /\ ~appDirOk => dirOk
              /\ Fail("ruffle", IF ~appDirOk THEN AppDirError
                                ELSE "Failed to create ruffle directory")
              /\ events' = [events EXCEPT !["ruffle"] = NoEvents]
              /\ requests' = [requests EXCEPT !["ruffle"] = << >>]
         ELSE /\ UNCHANGED result
              /\ Sent("ruffle", Emitted(NoEvents, "primary",
                     Milestone("ruffle", 0, "Fetching latest nightly...")))
              /\ requests' = [requests EXCEPT !["ruffle"] = << ReleasesUrl >>]
              /\ Goto("ruffle", "Locating")
    /\ UNCHANGED << envVars, files, mounted, versionFile, clock, resolveVars, calls >>

\* The discovery returned: on Err emit "Failed to fetch latest..." and take
\* the configured url; emit "Starting download..." and send the GET.
RuffleLocated ==
    /\ pc["ruffle"] = "Locating"
    /\ \E answer \in IndexAnswers :
         LET found == fetch_latest_nightly(answer)
             info == Located(found)
             failed == Emitted(events["ruffle"], "primary",
                          Milestone("ruffle", 0, "Failed to fetch latest. Using fallback..."))
         IN
         /\ local' = [local EXCEPT !["ruffle"].found = found,
                                   !["ruffle"].suffix = info.suffix,
                                   !["ruffle"].filename = info.filename,
                                   !["ruffle"].tag = info.tag]
         /\ Sent("ruffle",
                Emitted(IF found.kind = "err" THEN failed ELSE events["ruffle"],
                        "primary",
                        Milestone("ruffle", 0, "Starting download...")))
         /\ requests' = [requests EXCEPT !["ruffle"] = Append(@, info.url)]
    /\ Goto("ruffle", "Downloading")
    /\ UNCHANGED << envVars, attempt, total, downloaded, result, files, mounted,
                    versionFile, clock, ret, resolveVars, calls >>

RuffleResponse == DirectResponse("ruffle", RuffleDownloadPath)
RuffleChunk == DirectChunk("ruffle", RuffleDownloadPath, "ruffle")
RuffleChunkError == DirectChunkError("ruffle")
RuffleStreamEnd == DirectStreamEnd("ruffle", RuffleDownloadPath)

\* download_file_with_progress(..).await? : an error is the command's.
RuffleReturned ==
    /\ pc["ruffle"] = "Returned"
    /\ total' = Dropped(total, "ruffle")
    /\ downloaded' = Dropped(downloaded, "ruffle")
    /\ IF ret["ruffle"].kind = "err"
       THEN Fail("ruffle", ret["ruffle"].val)
       ELSE Goto("ruffle", "Extracting") /\ UNCHANGED result
    /\ UNCHANGED << envVars, attempt, local, files, mounted, versionFile, clock,
                    events, requests, ret, resolveVars, calls >>

\* A choice of extractor that takes every archive that is not a zip for a
\* gzipped tar.
ExtractAnything(suffix) == IF suffix = ".zip" THEN "zip" ELSE "tar.gz"

\* The extractor chosen by archive_name.ends_with(..): "zip", "tar.gz" or
\* none (Unsupported archive format).
Extractor(suffix) ==
    CASE suffix = ".zip"    -> "zip"
      [] suffix = ".tar.gz" -> "tar.gz"
      [] OTHER              -> "unsupported"

\* extract_zip / extract_tar_gz into ruffle_dir, then the archive is removed.
RuffleExtract ==
    /\ pc["ruffle"] = "Extracting"
    /\ \E outcome \in {"failed", "failedPartly", "binary", "noBinary"},
          exec \in BOOLEAN, removed \in BOOLEAN :
         IF Extractor(local["ruffle"].suffix) = "unsupported"
         THEN /\ outcome = "failed" /\ ~exec /\ removed
              /\ Fail("ruffle", "Unsupported archive format")
              /\ UNCHANGED files
         ELSE CASE outcome = "failed" ->
                     /\ ~exec /\ removed
                     /\ Fail("ruffle", "Failed to extract archive")
                     /\ UNCHANGED files
                [] outcome = "failedPartly" ->
                     /\ ~exec /\ removed
                     /\ Fail("ruffle", "Failed to extract archive")
                     /\ files' = [files EXCEPT ![RuffleInstalled] = PartlyExtracted]
                [] outcome = "binary" ->
                     /\ files' = RemoveArchive(
                            [files EXCEPT ![RuffleInstalled] = Extracted(exec)],
                            RuffleDownloadPath, removed)
                     /\ Goto("ruffle", "PostProcessing")
                     /\ UNCHANGED result
                [] outcome = "noBinary" ->
                     /\ ~exec
                     /\ files' = RemoveArchive(files, RuffleDownloadPath, removed)
                     /\ Goto("ruffle", "PostProcessing")
                     /\ UNCHANGED result
    /\ UNCHANGED << envVars, attempt, total, downloaded, local, mounted,
                    versionFile, clock, events, requests, ret, resolveVars, calls >>

\* linux, macos: if ruffle_bin.exists() { metadata()?; set_permissions()? }.
\* windows compiles the block out.
RuffleMakeExecutable ==
    /\ pc["ruffle"] = "PostProcessing"
    /\ IF os # "windows" /\ Exists(RuffleInstalled)
       THEN \E outcome \in {"ok", "metadataFailed", "setFailed"} :
              CASE outcome = "ok" ->
                     /\ files' = [files EXCEPT ![RuffleInstalled] = set_mode(@)]
                     /\ Goto("ruffle", "Publishing")
                     /\ UNCHANGED result
                [] outcome = "metadataFailed" ->
                     /\ Fail("ruffle", "Failed to get permissions")
                     /\ UNCHANGED files
                [] outcome = "setFailed" ->
                     /\ Fail("ruffle", "Failed to set permissions")
                     /\ UNCHANGED files
       ELSE /\ Goto("ruffle", "Publishing")
            /\ UNCHANGED << files, result >>
    /\ UNCHANGED << envVars, attempt, total, downloaded, local, mounted,
                    versionFile, clock, events, requests, ret, resolveVars, calls >>

\* let mut versions = load_versions().unwrap_or_default();
\* versions.ruffle = version_tag;
RuffleLoadVersions ==
    /\ pc["ruffle"] = "Publishing"
    /\ \E readable \in BOOLEAN :
         /\ versionFile.kind = "absent" => readable
         /\ local' = [local EXCEPT !["ruffle"].versions =
               [LoadedVersions(readable) EXCEPT !.ruffle = local["ruffle"].tag]]
    /\ Goto("ruffle", "Saving")
    /\ UNCHANGED << envVars, attempt, total, downloaded, result, files, mounted,
                    versionFile, clock, events, requests, ret, resolveVars, calls >>

\* save_versions(&versions)?; emit "Download complete"; return the path.
RuffleSaveVersions ==
    /\ pc["ruffle"] = "Saving"
    /\ \E outcome \in SaveOutcomes :
         /\ versionFile' = SavedFile(outcome, local["ruffle"].versions)
         /\ IF save_versions(outcome).kind = "err"
            THEN /\ Fail("ruffle", save_versions(outcome).val)
                 /\ UNCHANGED events
            ELSE /\ Emit("ruffle", Milestone("ruffle", 100, "Download complete"))
                 /\ Goto("ruffle", "Complete")
                 /\ Return("ruffle", Discarded(Ok(RuffleInstalled),
                                                events'["ruffle"].lost))
    /\ UNCHANGED << envVars, attempt, total, downloaded, local, files, mounted,
                    clock, requests, ret, resolveVars, calls >>


\* ===================================================================
\* game.rs: download_game
\* ===================================================================
GameDownloadPath == GamePath(local["game"].id)

\* A catalog that has a url for every id.
AnyUrl(id) == "game_url"

\* config.game_urls.get(&game_id): the catalog's url, or none.
GameUrl(id) == IF id \in GameCatalog THEN "game_url" ELSE None

\* Up to the first suspension: look the url up, resolve and create the
\* directory, emit "Starting download...", send the GET.
StartGame ==
    /\ pc["game"] = "Idle"
    /\ ret' = [ret EXCEPT !["game"] = NoResult]
    /\ attempt' = [attempt EXCEPT !["game"] = "primary"]
    /\ total' = Dropped(total, "game")
    /\ downloaded' = Dropped(downloaded, "game")
    /\ \E id \in GameIds, dirOk \in BOOLEAN :
         /\ local' = [local EXCEPT !["game"] = [NoLocal EXCEPT !.id = id]]
         /\ IF GameUrl(id) = None \/ ~appDirOk \/ ~dirOk
            THEN /\ (GameUrl(id) = None \/ ~appDirOk) => dirOk
                 /\ Fail("game",
                      CASE GameUrl(id) = None -> "Game not found in configuration"
                        [] ~appDirOk          -> AppDirError
                        [] OTHER              -> "Failed to create games directory")
                 /\ events' = [events EXCEPT !["game"] = NoEvents]
                 /\ requests' = [requests EXCEPT !["game"] = << >>]
                 /\ UNCHANGED files
            ELSE /\ UNCHANGED result
                 /\ files' = [files EXCEPT ![GamesDir] = Directory]
                 /\ Sent("game", Emitted(NoEvents, "primary",
                        Milestone(id, 0, "Starting download...")))
                 /\ requests' = [requests EXCEPT !["game"] = << GameUrl(id) >>]
                 /\ Goto("game", "Downloading")
    /\ UNCHANGED << envVars, mounted, versionFile, clock, resolveVars, calls >>

GameResponse == DirectResponse("game", GameDownloadPath)
GameChunk == DirectChunk("game", GameDownloadPath, local["game"].id)
GameChunkError == DirectChunkError("game")
GameStreamEnd == DirectStreamEnd("game", GameDownloadPath)

\* A command that stamps the ledger entry before it looks at what the
\* download returned.
GameReturnedStamping ==
    /\ pc["game"] = "Returned"
    /\ total' = Dropped(total, "game")
    /\ downloaded' = Dropped(downloaded, "game")
    /\ versionFile' = VersionFileOf([LoadedVersions(TRUE) EXCEPT
                                       !.games[local["game"].id] = clock])
    /\ IF ret["game"].kind = "err"
       THEN Fail("game", ret["game"].val)
       ELSE Goto("game", "Publishing") /\ UNCHANGED result
    /\ UNCHANGED << envVars, attempt, local, files, mounted, clock,
                    events, requests, ret, resolveVars, calls >>

\* download_file_with_progress(..).await? : an error is the command's.
GameReturned ==
    /\ pc["game"] = "Returned"
    /\ total' = Dropped(total, "game")
    /\ downloaded' = Dropped(downloaded, "game")
    /\ IF ret["game"].kind = "err"
       THEN Fail("game", ret["game"].val)
       ELSE Goto("game", "Publishing") /\ UNCHANGED result
    /\ UNCHANGED << envVars, attempt, local, files, mounted, versionFile, clock,
                    events, requests, ret, resolveVars, calls >>

\* let mut versions = load_versions().unwrap_or_default();
\* versions.games.insert(game_id, Utc::now().timestamp().to_string());
GameLoadVersions ==
    /\ pc["game"] = "Publishing"
    /\ \E now \in clock..MaxClock, readable \in BOOLEAN :
         /\ versionFile.kind = "absent" => readable
         /\ clock' = now
         /\ local' = [local EXCEPT !["game"].versions =
               [LoadedVersions(readable) EXCEPT !.games[local["game"].id] = now]]
    /\ Goto("game", "Saving")
    /\ UNCHANGED << envVars, attempt, total, downloaded, result, files, mounted,
                    versionFile, events, requests, ret, resolveVars, calls >>

\* save_versions(&versions)?; emit "Download complete"; return the path.
GameSaveVersions ==
    /\ pc["game"] = "Saving"
    /\ \E outcome \in SaveOutcomes :
         /\ versionFile' = SavedFile(outcome, local["game"].versions)
         /\ IF save_versions(outcome).kind = "err"
            THEN /\ Fail("game", save_versions(outcome).val)
                 /\ UNCHANGED events
            ELSE /\ Emit("game", Milestone(local["game"].id, 100, "Download complete"))
                 /\ Goto("game", "Complete")
                 /\ Return("game", Discarded(Ok(GameDownloadPath),
                                              events'["game"].lost))
    /\ UNCHANGED << envVars, attempt, total, downloaded, local, files, mounted,
                    clock, requests, ret, resolveVars, calls >>


\* ===================================================================
\* The program
\* ===================================================================
\* Settings::default(): every Option is None.
DefaultSettings ==
    [flash_player_path |-> None, ruffle_path |-> None, use_ruffle |-> None]

\* No settings or path command has run.
NoCommand == [cmd |-> "", settings |-> DefaultSettings, res |-> NoResult]

\* Mutex::new(settings): not held, not poisoned.
Unlocked == [held |-> FALSE, poisoned |-> FALSE]

\* No settings or path command is in progress.  at names the operation a
\* command in progress performs next.
NoRunning == [cmd |-> "", at |-> "", game |-> None]

\* What earlier runs of the program can have left on disk: a whole earlier
\* download at every download path, an orphaned temp file, the installed
\* binaries, and a ledger with every entry set.
EarlierDownload == [kind |-> "file", len |-> 1, complete |-> TRUE, exec |-> FALSE]
OrphanedTemp == [kind |-> "file", len |-> 1, complete |-> FALSE, exec |-> FALSE]
FreshDisk == [p \in Paths |-> Absent]
UsedDisk ==
    [p \in Paths |->
       CASE p \in {FlashBin, RuffleBin}                     -> Extracted(TRUE)
         [] p \in {FlashDownloadPath, "Games/PTD1.swf", "Games/PTD2.swf",
                   RuffleArchive(target_suffix)}            -> EarlierDownload
         [] p = WithExtensionPart(FlashDownloadPath)        -> OrphanedTemp
         [] p = GamesDir                                    -> Directory
         [] OTHER                                           -> Absent]
EarlierVersions ==
    [flash_player |-> FallbackVersion, ruffle |-> "nightly-0",
     games |-> [g \in GameCatalog |-> 1]]

Init ==
    /\ os \in OSes
    /\ fallback_url \in {None, "fallback_url"}
    /\ appDirOk \in BOOLEAN
    /\ pc = [c \in Classes |-> "Idle"]
    /\ attempt = [c \in Classes |-> "primary"]
    /\ total = [c \in Classes |-> 0]
    /\ downloaded = [c \in Classes |-> 0]
    /\ result = [c \in Classes |-> NotReturned]
    /\ ret = [c \in Classes |-> NoResult]
    /\ local = [c \in Classes |-> NoLocal]
    /\ files \in {FreshDisk, UsedDisk}
    /\ mounted = FALSE
    /\ versionFile \in {NoVersionFile, VersionFileOf(EarlierVersions),
                        CorruptVersionFile}
    /\ clock = 1
    /\ events = [c \in Classes |-> NoEvents]
    /\ requests = [c \in Classes |-> << >>]
    /\ settings = DefaultSettings
    /\ lastPath = NoCommand
    /\ mutex = Unlocked
    /\ running = NoRunning
    /\ settingsFile = None
    /\ calls = [i \in Invocations |-> NoCall]
    /\ initial = [files |-> files, versionFile |-> versionFile]

\* No command has been invoked yet.
Quiet == \A c \in Classes : pc[c] = "Idle"

\* One acquisition command is invoked and runs to its end, or is dropped.
Next ==
    \/ Quiet /\ StartFlash
    \/ Quiet /\ StartRuffle
    \/ Quiet /\ StartGame
    \/ FlashResponse
    \/ FlashChunk
    \/ FlashChunkError
    \/ FlashStreamEnd
    \/ FlashPrimaryReturned
    \/ FlashFallbackReturned
    \/ FlashExtractTarGz
    \/ FlashMakeExecutable
    \/ FlashExtractDmg
    \/ FlashLoadVersions
    \/ FlashSaveVersions
    \/ RuffleLocated
    \/ RuffleResponse
    \/ RuffleChunk
    \/ RuffleChunkError
    \/ RuffleStreamEnd
    \/ RuffleReturned
    \/ RuffleExtract
    \/ RuffleMakeExecutable
    \/ RuffleLoadVersions
    \/ RuffleSaveVersions
    \/ GameResponse
    \/ GameChunk
    \/ GameChunkError
    \/ GameStreamEnd
    \/ GameReturned
    \/ GameLoadVersions
    \/ GameSaveVersions
    \/ \E c \in Classes : Abort(c)

Spec == Init /\ [][Next]_vars

\* ===================================================================
\* config.rs: get_flash_player_path, get_ruffle_path;  lib.rs: save_settings
\* ===================================================================
\* A resolver that takes the override's word for it.
OverrideUnchecked(s) ==
    IF s.flash_player_path # None THEN Ok(s.flash_player_path)
    ELSE IF ~appDirOk THEN Err(AppDirError)
    ELSE Ok(FlashBin)

\* if let Some(custom_path) = &settings.flash_player_path { if path.exists()
\* { return Ok(path) } };  get_flash_dir()?;  Ok(flash_dir.join(filename))
get_flash_player_path(s) ==
    IF s.flash_player_path # None /\ Exists(s.flash_player_path)
    THEN Ok(s.flash_player_path)
    ELSE IF ~appDirOk THEN Err(AppDirError)
    ELSE Ok(FlashBin)

\* The same for settings.ruffle_path, get_ruffle_dir() and the ruffle filename.
get_ruffle_path(s) ==
    IF s.ruffle_path # None /\ Exists(s.ruffle_path)
    THEN Ok(s.ruffle_path)
    ELSE IF ~appDirOk THEN Err(AppDirError)
    ELSE Ok(RuffleBin)

\* The Settings values a caller of save_settings passes.
SettingsValues ==
    [flash_player_path : {None, CustomFlash},
     ruffle_path : {None, CustomRuffle},
     use_ruffle : {None, "true", "false"}]

\* config::save_settings(&new): get_flash_dir()?, create_dir_all, fs::write;
\* settings.json holds new once all three have succeeded.
Persisted(new, written) ==
    IF appDirOk /\ written THEN new ELSE settingsFile

\* save_settings: the in-memory value is replaced under the lock, then
\* config::save_settings writes settings.json and its Result is returned.
SaveSettings ==
    /\ \E new \in SettingsValues, written \in BOOLEAN :
         /\ ~appDirOk => written
         /\ settings' = new
         /\ settingsFile' = Persisted(new, written)
         /\ lastPath' = [cmd |-> "save_settings", settings |-> new,
                         res |-> IF ~appDirOk THEN Err(AppDirError)
                                 ELSE IF written THEN Ok("")
                                 ELSE Err("Failed to write settings.json")]
    /\ UNCHANGED << calls, envVars, pc, attempt, total, downloaded, result, local,
                    files, mounted, versionFile, clock, events, requests, ret,
                    lockVars >>

\* get_flash_path: lock, resolve, to_str.
GetFlashPath ==
    /\ lastPath' = [cmd |-> "get_flash_path", settings |-> settings,
                    res |-> get_flash_player_path(settings)]
    /\ UNCHANGED << settingsFile, calls, envVars, pc, attempt, total, downloaded, result, local,
                    files, mounted, versionFile, clock, events, requests, ret,
                    settings, lockVars >>

\* get_ruffle_path: lock, resolve, to_str.
GetRufflePath ==
    /\ lastPath' = [cmd |-> "get_ruffle_path", settings |-> settings,
                    res |-> get_ruffle_path(settings)]
    /\ UNCHANGED << settingsFile, calls, envVars, pc, attempt, total, downloaded, result, local,
                    files, mounted, versionFile, clock, events, requests, ret,
                    settings, lockVars >>

\* The disks the path commands can find: those of Init, with or without a
\* runtime the user installed at the custom paths.
CustomInstall == [kind |-> "file", len |-> 1, complete |-> TRUE, exec |-> TRUE]
ResolveDisks ==
    { [d EXCEPT ![CustomFlash] = f, ![CustomRuffle] = r] :
        d \in {FreshDisk, UsedDisk}, f \in {Absent, CustomInstall},
        r \in {Absent, CustomInstall} }

InitResolve ==
    /\ os \in OSes
    /\ fallback_url = None
    /\ appDirOk \in BOOLEAN
    /\ pc = [c \in Classes |-> "Idle"]
    /\ attempt = [c \in Classes |-> "primary"]
    /\ total = [c \in Classes |-> 0]
    /\ downloaded = [c \in Classes |-> 0]
    /\ result = [c \in Classes |-> NotReturned]
    /\ ret = [c \in Classes |-> NoResult]
    /\ local = [c \in Classes |-> NoLocal]
    /\ files \in ResolveDisks
    /\ mounted = FALSE
    /\ versionFile = NoVersionFile
    /\ clock = 1
    /\ events = [c \in Classes |-> NoEvents]
    /\ requests = [c \in Classes |-> << >>]
    /\ settings = DefaultSettings
    /\ lastPath = NoCommand
    /\ mutex = Unlocked
    /\ running = NoRunning
    /\ settingsFile = None
    /\ calls = [i \in Invocations |-> NoCall]
    /\ initial = [files |-> files, versionFile |-> versionFile]

\* The settings and path commands, in any order.
NextResolve ==
    \/ SaveSettings
    \/ GetFlashPath
    \/ GetRufflePath

SpecResolve == InitResolve /\ [][NextResolve]_vars

\* ===================================================================
\* The settings lock: the commands of lib.rs, flash.rs, ruffle.rs and
\* game.rs that take State<Mutex<Settings>>
\* ===================================================================
\* A command whose thread panicked returns nothing.
Panicked(m) == [kind |-> "panic", val |-> m]

\* A bool a command returns.
Bool(b) == [kind |-> "ok", val |-> IF b THEN "true" ELSE "false"]

\* The commands that keep the guard in a local until they return.
GuardCommands ==
    { "check_flash_installed", "get_flash_path", "check_ruffle_installed",
      "get_ruffle_path", "launch_game" }

\* match settings.lock() { Ok(s) => s, Err(p) => p.into_inner() } takes the
\* guard out of a poisoned mutex; settings.lock().unwrap() does not.
Recovers(cmd) == cmd \notin {"check_ruffle_installed", "get_ruffle_path"}

\* settings.lock() as cmd writes it: the guard, or a panic.
lock(cmd) ==
    IF mutex.poisoned /\ ~Recovers(cmd) THEN Panicked("PoisonError")
    ELSE Ok("guard")

\* The override a path command looks at.
Override(cmd) ==
    IF cmd \in {"check_flash_installed", "get_flash_path"}
    THEN settings.flash_player_path ELSE settings.ruffle_path

\* config::get_*_path of a path command.
ResolvedPath(cmd) ==
    IF cmd \in {"check_flash_installed", "get_flash_path"}
    THEN get_flash_player_path(settings) ELSE get_ruffle_path(settings)

\* match get_*_path { Ok(path) => path.exists(), Err(_) => false }, or the
\* path itself.
PathCommandResult(cmd) ==
    IF cmd \in {"check_flash_installed", "check_ruffle_installed"}
    THEN Bool(ResolvedPath(cmd).kind = "ok" /\ Exists(ResolvedPath(cmd).val))
    ELSE ResolvedPath(cmd)

\* Whether the command asks the file system anything: the override's
\* path.exists(), the resolved path's, find_game_path's.
Probes(cmd) ==
    CASE cmd = "launch_game" -> appDirOk
      [] cmd \in {"get_flash_path", "get_ruffle_path"} -> Override(cmd) # None
      [] OTHER -> Override(cmd) # None \/ appDirOk

\* find_game_path(game_id): the standard path if it exists.  The model's
\* disk holds no versioned files.
find_game_path(id) ==
    IF ~appDirOk THEN Err(AppDirError)
    ELSE IF Exists(GamePath(id)) THEN Ok(GamePath(id))
    ELSE Ok(None)

\* is_game_downloaded(game_id): find_game_path(..).ok().flatten().is_some().
is_game_downloaded(id) ==
    find_game_path(id).kind = "ok" /\ find_game_path(id).val # None

\* launch_game up to the spawn: the game's path, the player's path, the
\* game's url; Ok(player) or the Err the command returns.
LaunchPlan(id) ==
    LET use_ruffle == settings.use_ruffle = "true"
        player == IF use_ruffle THEN get_ruffle_path(settings)
                  ELSE get_flash_player_path(settings)
    IN CASE find_game_path(id).kind = "err" -> find_game_path(id)
         [] find_game_path(id).val = None ->
              Err("Game not found. Please download it first.")
         [] player.kind = "err" -> player
         [] ~Exists(player.val) ->
              Err(IF use_ruffle THEN "Ruffle not installed. Please download it first."
                  ELSE "Flash Player not installed. Please download it first.")
         [] GameUrl(id) = None -> Err("Game not found in configuration")
         [] OTHER -> player

\* get_settings: lock, clone, the guard is dropped with the match.
GetSettings ==
    /\ running.cmd = ""
    /\ lastPath' = [cmd |-> "get_settings", settings |-> settings,
                    res |-> lock("get_settings")]
    /\ UNCHANGED << settingsFile, calls, envVars, pc, attempt, total, downloaded, result, local,
                    files, mounted, versionFile, clock, events, requests, ret,
                    settings, lockVars >>

\* save_settings, first half: lock, *s = new_settings, the guard is dropped
\* at the end of the match.
SaveSettingsReplace ==
    /\ running.cmd = ""
    /\ \E new \in SettingsValues : settings' = new
    /\ running' = [NoRunning EXCEPT !.cmd = "save_settings", !.at = "writing"]
    /\ UNCHANGED << settingsFile, calls, envVars, pc, attempt, total, downloaded, result, local,
                    files, mounted, versionFile, clock, events, requests, ret,
                    lastPath, mutex >>

\* save_settings, second half: config::save_settings(&new_settings).
SaveSettingsWrite ==
    /\ running.cmd = "save_settings"
    /\ \E written \in BOOLEAN :
         /\ ~appDirOk => written
         /\ settingsFile' = Persisted(settings, written)
         /\ lastPath' = [cmd |-> "save_settings", settings |-> settings,
                         res |-> IF ~appDirOk THEN Err(AppDirError)
                                 ELSE IF written THEN Ok("")
                                 ELSE Err("Failed to write settings.json")]
    /\ running' = NoRunning
    /\ UNCHANGED << calls, envVars, pc, attempt, total, downloaded, result, local,
                    files, mounted, versionFile, clock, events, requests, ret,
                    settings, mutex >>

\* let settings = settings.lock()..: a command takes the guard into a local
\* that lives until the command returns, or panics on a poisoned mutex.
LockSettings ==
    /\ running.cmd = ""
    /\ \E cmd \in GuardCommands, id \in GameIds \cup {None} :
         /\ (id # None) <=> (cmd = "launch_game")
         /\ IF lock(cmd).kind = "panic"
            THEN /\ lastPath' = [cmd |-> cmd, settings |-> settings,
                                 res |-> lock(cmd)]
                 /\ UNCHANGED << mutex, running >>
            ELSE /\ mutex' = [mutex EXCEPT !.held = TRUE]
                 /\ running' = [cmd |-> cmd, game |-> id,
                                at |-> IF Probes(cmd) THEN "probing"
                                       ELSE "resolving"]
                 /\ UNCHANGED lastPath
    /\ UNCHANGED << settingsFile, calls, envVars, pc, attempt, total, downloaded, result, local,
                    files, mounted, versionFile, clock, events, requests, ret,
                    settings >>

\* check_*_installed, get_*_path: resolve, probe, return; the guard is
\* dropped on return.
PathCommandReturns ==
    /\ running.cmd \in GuardCommands \ {"launch_game"}
    /\ lastPath' = [cmd |-> running.cmd, settings |-> settings,
                    res |-> PathCommandResult(running.cmd)]
    /\ mutex' = [mutex EXCEPT !.held = FALSE]
    /\ running' = NoRunning
    /\ UNCHANGED << settingsFile, calls, envVars, pc, attempt, total, downloaded, result, local,
                    files, mounted, versionFile, clock, events, requests, ret,
                    settings >>

\* launch_game up to the spawn: an Err returns (and drops the guard).
LaunchProbes ==
    /\ running.cmd = "launch_game" /\ running.at \in {"probing", "resolving"}
    /\ IF LaunchPlan(running.game).kind = "err"
       THEN /\ lastPath' = [cmd |-> "launch_game", settings |-> settings,
                            res |-> LaunchPlan(running.game)]
            /\ mutex' = [mutex EXCEPT !.held = FALSE]
            /\ running' = NoRunning
       ELSE /\ running' = [running EXCEPT !.at = "spawning"]
            /\ UNCHANGED << lastPath, mutex >>
    /\ UNCHANGED << settingsFile, calls, envVars, pc, attempt, total, downloaded, result, local,
                    files, mounted, versionFile, clock, events, requests, ret,
                    settings >>

\* launch_game: Command::new(player).spawn(), then Ok(()) and the guard is
\* dropped.
LaunchSpawns ==
    /\ running.cmd = "launch_game" /\ running.at = "spawning"
    /\ \E spawned \in BOOLEAN :
         lastPath' = [cmd |-> "launch_game", settings |-> settings,
                      res |-> IF spawned THEN Ok("")
                              ELSE Err("Failed to launch game")]
    /\ mutex' = [mutex EXCEPT !.held = FALSE]
    /\ running' = NoRunning
    /\ UNCHANGED << settingsFile, calls, envVars, pc, attempt, total, downloaded, result, local,
                    files, mounted, versionFile, clock, events, requests, ret,
                    settings >>

\* The thread of the command that holds the guard panics: the guard is
\* dropped in the unwinding and the mutex is poisoned.
HolderPanics ==
    /\ mutex.held
    /\ mutex' = [held |-> FALSE, poisoned |-> TRUE]
    /\ lastPath' = [cmd |-> running.cmd, settings |-> settings,
                    res |-> Panicked("panicked while holding the guard")]
    /\ running' = NoRunning
    /\ UNCHANGED << settingsFile, calls, envVars, pc, attempt, total, downloaded, result, local,
                    files, mounted, versionFile, clock, events, requests, ret,
                    settings >>

\* The settings and path commands, one at a time, step by step.
NextLock ==
    \/ GetSettings
    \/ SaveSettingsReplace
    \/ SaveSettingsWrite
    \/ LockSettings
    \/ PathCommandReturns
    \/ LaunchProbes
    \/ LaunchSpawns
    \/ HolderPanics

SpecLock == InitResolve /\ [][NextLock]_vars

\* ===================================================================
\* The progress computation on longer bodies
\* ===================================================================
\* The longest declared length drawn.
MaxDeclared == 50

\* download_game("PTD1") has sent its GET and received a success status
\* declaring some length (0: none); the destination file is created and the
\* stream is about to be read.
InitPercent ==
    /\ os \in OSes
    /\ fallback_url = None
    /\ appDirOk = TRUE
    /\ pc = [c \in Classes |-> IF c = "game" THEN "Streaming" ELSE "Idle"]
    /\ attempt = [c \in Classes |-> "primary"]
    /\ total \in { [c \in Classes |-> IF c = "game" THEN t ELSE 0] :
                   t \in 0..MaxDeclared }
    /\ downloaded = [c \in Classes |-> 0]
    /\ result = [c \in Classes |-> NotReturned]
    /\ ret = [c \in Classes |-> NoResult]
    /\ local = [c \in Classes |->
                  IF c = "game" THEN [NoLocal EXCEPT !.id = "PTD1"] ELSE NoLocal]
    /\ files = [FreshDisk EXCEPT ![GamesDir] = Directory,
                                 ![GamePath("PTD1")] = NewFile]
    /\ mounted = FALSE
    /\ versionFile = NoVersionFile
    /\ clock = 1
    /\ events = [c \in Classes |->
                   IF c = "game"
                   THEN Emitted(NoEvents, "primary",
                                Milestone("PTD1", 0, "Starting download..."))
                   ELSE NoEvents]
    /\ requests = [c \in Classes |->
                     IF c = "game" THEN << GameUrl("PTD1") >> ELSE << >>]
    /\ settings = DefaultSettings
    /\ lastPath = NoCommand
    /\ mutex = Unlocked
    /\ running = NoRunning
    /\ settingsFile = None
    /\ calls = [i \in Invocations |-> NoCall]
    /\ initial = [files |-> FreshDisk, versionFile |-> versionFile]

\* The chunks of the body arrive.
NextPercent ==
    DirectChunkWithin("game", GameDownloadPath, local["game"].id, MaxDeclared)

SpecPercent == InitPercent /\ [][NextPercent]_vars


\* ===================================================================
\* Hosts that stop sending
\* ===================================================================
\* The remote host has accepted the connection and sends nothing more:
\* send().await, or stream.next().await, stays pending.
HostStalls(c) ==
    /\ pc[c] \in {"Downloading", "Streaming"}
    /\ Goto(c, IF pc[c] = "Downloading" THEN "Unanswered" ELSE "Stalled")
    /\ UNCHANGED << envVars, attempt, total, downloaded, result, local, files,
                    mounted, versionFile, clock, events, requests, ret,
                    resolveVars, calls >>

\* flash.rs: Client::builder().timeout(Duration::from_secs(300)): the
\* pending future resolves to an error once the time is up.  The clients
\* of ruffle.rs and game.rs are Client::new(): they have no timeout, and
\* nothing resolves their pending futures.
FlashTimeout ==
    /\ pc["flash"] \in {"Unanswered", "Stalled"}
    /\ DownloaderReturns("flash", IF pc["flash"] = "Unanswered"
                                  THEN Err("Request failed")
                                  ELSE Err("Download error"))
    /\ UNCHANGED << envVars, attempt, total, downloaded, result, local, files,
                    mounted, versionFile, clock, events, requests, resolveVars, calls >>

\* The steps of the transfers, which the runtime keeps polling.
Transfer ==
    \/ Quiet /\ StartFlash
    \/ Quiet /\ StartRuffle
    \/ Quiet /\ StartGame
    \/ RuffleLocated
    \/ FlashResponse
    \/ FlashChunk
    \/ FlashChunkError
    \/ FlashStreamEnd
    \/ FlashTimeout
    \/ FlashPrimaryReturned
    \/ RuffleResponse
    \/ RuffleChunk
    \/ RuffleChunkError
    \/ RuffleStreamEnd
    \/ GameResponse
    \/ GameChunk
    \/ GameChunkError
    \/ GameStreamEnd

InitLive == Init /\ files = FreshDisk /\ versionFile = NoVersionFile

NextLive ==
    \/ Transfer
    \/ \E c \in Classes : HostStalls(c)

SpecLive == InitLive /\ [][NextLive]_vars /\ WF_vars(Transfer)

\* ===================================================================
\* Two commands of different classes at once
\* ===================================================================
\* The commands are async and nothing orders them: the webview may invoke
\* download_game while download_flash is suspended, and the runtime's
\* worker threads run both.  A first install on a Windows machine whose
\* hosts answer.
InitTogether ==
    /\ Init
    /\ os = "windows"
    /\ appDirOk
    /\ fallback_url = None
    /\ files = FreshDisk
    /\ versionFile = NoVersionFile

NextTogether ==
    \/ StartFlash
    \/ StartGame
    \/ FlashResponse
    \/ FlashChunk
    \/ FlashStreamEnd
    \/ FlashPrimaryReturned
    \/ FlashLoadVersions
    \/ FlashSaveVersions
    \/ GameResponse
    \/ GameChunk
    \/ GameStreamEnd
    \/ GameReturned
    \/ GameLoadVersions
    \/ GameSaveVersions

SpecTogether == InitTogether /\ [][NextTogether]_vars

\* ===================================================================
\* download_flash invoked twice
\* ===================================================================
\* Neither download_flash nor download_file_with_progress looks for a call
\* already running: each call gets its own HTTP response, its own handle
\* and offset, and the one temp path.  handle is where the file a call
\* opened now lives: at the temp path, at the destination after a rename,
\* or nowhere once a later rename has replaced the destination.
InFlight(i) == calls[i].at \in {"Downloading", "Streaming"}

\* download_flash(window, config) is invoked.
TwiceInvoke(i) ==
    /\ calls[i].at = "Idle"
    /\ calls' = [calls EXCEPT ![i].at = "Downloading"]
    /\ UNCHANGED << envVars, pc, attempt, total, downloaded, result, local,
                    files, mounted, versionFile, clock, events, requests, ret,
                    resolveVars >>

\* fs::File::create(&tmp_path): creates the temp file, or truncates the one
\* another call is writing.
TwiceCreate(i) ==
    /\ calls[i].at = "Downloading"
    /\ files' = FlashCreateTemp
    /\ calls' = [calls EXCEPT ![i].at = "Streaming", ![i].handle = "tmp"]
    /\ UNCHANGED << envVars, pc, attempt, total, downloaded, result, local,
                    mounted, versionFile, clock, events, requests, ret,
                    resolveVars >>

\* file.write_all(&chunk): one more byte at the call's own offset of the
\* file its handle refers to.
TwiceChunk(i) ==
    /\ calls[i].at = "Streaming"
    /\ calls[i].offset < MaxBody
    /\ calls' = [calls EXCEPT ![i].offset = @ + 1]
    /\ files' =
         IF calls[i].handle = "unlinked" THEN files
         ELSE LET p == IF calls[i].handle = "tmp" THEN FlashTmp
                       ELSE FlashDownloadPath
              IN  [files EXCEPT ![p].len = IF @ > calls[i].offset THEN @
                                           ELSE calls[i].offset + 1]
    /\ UNCHANGED << envVars, pc, attempt, total, downloaded, result, local,
                    mounted, versionFile, clock, events, requests, ret,
                    resolveVars >>

\* The stream ends; file.flush(); fs::rename(&tmp_path, dest): it fails when
\* the other call has already renamed the temp file away.
TwiceStreamEnd(i) ==
    /\ calls[i].at = "Streaming"
    /\ IF Exists(FlashTmp)
       THEN /\ files' = FlashPublish
            /\ calls' = [j \in Invocations |->
                  LET moved == [calls[j] EXCEPT !.handle =
                                   CASE @ = "tmp"  -> "dest"
                                     [] @ = "dest" -> "unlinked"
                                     [] OTHER      -> @]
                  IN  IF j = i THEN [moved EXCEPT !.at = "Returned",
                                                  !.handle = None,
                                                  !.ret = Ok("")]
                      ELSE moved]
       ELSE /\ calls' = [calls EXCEPT ![i].at = "Returned", ![i].handle = None,
                            ![i].ret = Err("Failed to rename temp file")]
            /\ UNCHANGED files
    /\ UNCHANGED << envVars, pc, attempt, total, downloaded, result, local,
                    mounted, versionFile, clock, events, requests, ret,
                    resolveVars >>

InitTwice == Init /\ appDirOk /\ fallback_url = None /\ versionFile = NoVersionFile

NextTwice ==
    \E i \in Invocations :
      \/ TwiceInvoke(i)
      \/ TwiceCreate(i)
      \/ TwiceChunk(i)
      \/ TwiceStreamEnd(i)

SpecTwice == InitTwice /\ [][NextTwice]_vars


\* ===================================================================
\* Properties
\* ===================================================================
\* The final paths the three downloaders are given.
DownloadPaths ==
    { FlashDownloadPath, "Ruffle/ruffle.zip", "Ruffle/ruffle.tar.gz",
      "Ruffle/ruffle.tgz", "Ruffle/ruffle.bin", "Games/PTD1.swf",
      "Games/PTD2.swf" }

\* The final path of the running download of class c.
DownloadDest(c) ==
    CASE c = "flash"  -> FlashDownloadPath
      [] c = "ruffle" -> RuffleDownloadPath
      [] OTHER        -> GameDownloadPath

\* The stages of a command before it writes the ledger, as result.at names
\* them: "Idle" is the set-up before the first request, "Returned" a
\* download attempt that came back with an error.
EarlyStages == {"Idle", "Locating", "Returned", "Extracting", "PostProcessing"}

\* C1 (atomic publication): in every reachable state every download's final
\* path is absent, holds the content it had before the acquisition, or holds
\* a whole downloaded body; it is never partly written.
C1_AtomicPublication ==
    \A p \in DownloadPaths :
        \/ files[p] = Absent
        \/ files[p] = initial.files[p]
        \/ files[p].complete

\* C2 (declared length over the limit): in every class, a downloader call
\* that learns of a declared length above MAX_DOWNLOAD_SIZE returns the
\* size-limit error in that very step, and the step creates and writes no
\* file.
C2_DeclaredTooLargeRejected ==
    [][ \A c \in Classes :
          (pc[c] = "Downloading" /\ total'[c] > MAX_DOWNLOAD_SIZE)
          => /\ pc'[c] = "Returned"
             /\ ret'[c] = Err("Remote file too large")
             /\ files' = files ]_vars

\* C3 (running count over the limit): in every class, a running byte count
\* above MAX_DOWNLOAD_SIZE is seen only by a call that has returned the
\* size-limit error and deleted what it wrote, and no download path or temp
\* file is ever longer than MAX_DOWNLOAD_SIZE.
C3_StreamLimitEnforced ==
    /\ \A c \in Classes :
         downloaded[c] > MAX_DOWNLOAD_SIZE
         => /\ pc[c] = "Returned"
            /\ ret[c] = Err("Download exceeded maximum allowed size")
    /\ \A p \in DownloadPaths \cup {FlashTmp} :
         Exists(p) => files[p].len <= MAX_DOWNLOAD_SIZE

\* C4 (length of a successful download): when a downloader call of any class
\* has returned Ok, the final path holds as many bytes as the last progress
\* event of that call reported (none, if the body was empty and the call
\* emitted no event), and the temp file of flash.rs is gone.  ruffle.rs and
\* game.rs make no temp file.
C4_LengthMatchesLastEvent ==
    \A c \in Classes :
        (pc[c] = "Returned" /\ ret[c].kind = "ok")
        => /\ Exists(DownloadDest(c))
           /\ files[DownloadDest(c)].len =
                 IF events[c].streamed[attempt[c]] > 0
                 THEN events[c].last.downloaded ELSE 0
           /\ (c = "flash" => ~Exists(FlashTmp))

\* C4's case: the fallback attempt of download_flash returned Ok after two
\* chunks, over an orphaned temp file and an earlier download.
C4_Witness ==
    /\ pc["flash"] = "Returned" /\ ret["flash"].kind = "ok"
    /\ attempt["flash"] = "fallback"
    /\ events["flash"].streamed["fallback"] = 2
    /\ events["flash"].last.downloaded = 2
    /\ initial.files[FlashTmp] # Absent

\* C5 (no fallback URL): once the primary attempt of download_flash has
\* returned an error and the configuration has no fallback URL, the command
\* has failed with exactly that error, the primary URL is the only request
\* it made, and the installed binary, the mount and the ledger are as they
\* were before the command.
C5_PrimaryFailureIsTerminal ==
    (fallback_url = None /\ ret["flash"].kind = "err" /\ pc["flash"] # "Returned")
    => /\ pc["flash"] = "Failed"
       /\ result["flash"] = [kind |-> "err", val |-> ret["flash"].val,
                             at |-> "Returned"]
       /\ requests["flash"] = << PrimaryUrl >>
       /\ files[FlashBin] = initial.files[FlashBin]
       /\ ~mounted
       /\ versionFile = initial.versionFile

\* C5's case: the primary attempt died in mid-stream, there is no fallback
\* URL, and the command has failed.
C5_Witness ==
    /\ fallback_url = None
    /\ pc["flash"] = "Failed"
    /\ result["flash"].val = "Download error"
    /\ initial.versionFile = VersionFileOf(EarlierVersions)

\* C6 (fallback URL): once the primary attempt of download_flash has
\* returned an error and a fallback URL u is configured, the command is on
\* its fallback attempt and its requests are the primary URL and then u; if
\* the fallback attempt returned an error the command has failed with that
\* error, otherwise it is in, or has failed in, a stage after the download;
\* a command that completes returns the installed path and has recorded
\* the configured version, whichever attempt succeeded.
C6_FallbackAttempt ==
    /\ ~( fallback_url # None /\ attempt["flash"] = "primary"
          /\ ret["flash"].kind = "err" /\ pc["flash"] # "Returned" )
    /\ attempt["flash"] = "fallback"
       => /\ fallback_url # None
          /\ local["flash"].primary_attempt.kind = "err"
          /\ requests["flash"] = << PrimaryUrl, fallback_url >>
          /\ (pc["flash"] \notin {"Downloading", "Streaming", "Returned", "Aborted"})
             => IF ret["flash"].kind = "err"
                THEN /\ pc["flash"] = "Failed"
                     /\ result["flash"] = [kind |-> "err", val |-> ret["flash"].val,
                                           at |-> "Returned"]
                ELSE \/ pc["flash"] \in {"Extracting", "PostProcessing",
                                         "Publishing", "Saving", "Complete"}
                     \/ /\ pc["flash"] = "Failed"
                        /\ result["flash"].at \in {"Extracting", "PostProcessing",
                                                   "Saving"}
    /\ pc["flash"] = "Complete"
       => /\ result["flash"] = [kind |-> "ok", val |-> FlashBin, at |-> "Saving"]
          /\ versionFile.kind = "ok"
          /\ versionFile.v.flash_player = FallbackVersion

\* C6's case: both attempts failed, with different errors, and the command
\* has failed.
C6_Witness ==
    /\ attempt["flash"] = "fallback"
    /\ pc["flash"] = "Failed"
    /\ result["flash"].at = "Returned"
    /\ local["flash"].primary_attempt.val = "HTTP error: 404 Not Found"
    /\ ret["flash"].val = "HTTP error: 500 Internal Server Error"

\* C7 (at most two attempts): download_flash sends one request per
\* downloader call: the primary URL, and the fallback URL only when one is
\* configured and the primary attempt returned an error; download_ruffle
\* sends the discovery request and one download request; download_game
\* sends one download request.
C7_FallbackOnlyAfterFailure ==
    /\ Len(requests["flash"]) =
          IF pc["flash"] = "Idle" \/ result["flash"].at = "Idle" THEN 0
          ELSE IF attempt["flash"] = "fallback" THEN 2 ELSE 1
    /\ Len(requests["flash"]) = 2
       => /\ fallback_url # None
          /\ requests["flash"] = << PrimaryUrl, fallback_url >>
          /\ local["flash"].primary_attempt.kind = "err"
    /\ (attempt["flash"] = "primary" /\ ret["flash"].kind = "ok")
       => requests["flash"] = << PrimaryUrl >>
    /\ \E u \in {StaticUrl, DiscoveredUrl} :
         requests["ruffle"] \in { << >>, << ReleasesUrl >>, << ReleasesUrl, u >> }
    /\ requests["game"] \in { << >>, << "game_url" >> }

\* C7's case: the primary attempt succeeded although a fallback URL is
\* configured, and the command completed.
C7_Witness ==
    /\ fallback_url # None
    /\ attempt["flash"] = "primary"
    /\ pc["flash"] = "Complete"
    /\ requests["flash"] = << PrimaryUrl >>

\* C8 (discovery failure): once the discovery of download_ruffle has
\* returned, the download request goes to the configured URL exactly when
\* the discovery returned an error, and then the configured suffix and
\* filename are used and the version tag is "fallback"; when it returned Ok
\* the discovered URL and tag are used; the command never fails in the
\* discovery stage; a command that completes has recorded that tag.
C8_DiscoveryFailureAbsorbed ==
    LET l == local["ruffle"] IN
    /\ result["ruffle"].at # "Locating"
    /\ l.found.kind # "none"
       => /\ Len(requests["ruffle"]) = 2
          /\ (requests["ruffle"][2] = StaticUrl) <=> (l.found.kind = "err")
          /\ l.found.kind = "err"
             => /\ l.suffix = StaticRuffle.suffix
                /\ l.filename = StaticRuffle.filename
                /\ l.tag = "fallback"
          /\ l.found.kind = "ok"
             => /\ requests["ruffle"][2] = DiscoveredUrl
                /\ l.tag = l.found.val.tag
                /\ l.tag # "fallback"
          /\ pc["ruffle"] = "Complete"
             => /\ versionFile.kind = "ok"
                /\ versionFile.v.ruffle = l.tag

\* C8's case: the release index had no asset for this OS, and the command
\* completed with the configured archive.
C8_Witness ==
    /\ local["ruffle"].found = Err("No asset found for target")
    /\ pc["ruffle"] = "Complete"
    /\ versionFile.v.ruffle = "fallback"

\* C9 (ledger frame): a command of any class that has failed before its
\* ledger stage has left Games/version.json as it found it, and the file
\* differs from what the program found only after a command reached its
\* ledger stage.
C9_LedgerUntouchedOnFailure ==
    /\ \A c \in Classes :
         (pc[c] = "Failed" /\ result[c].at \in EarlyStages)
         => versionFile = initial.versionFile
    /\ versionFile # initial.versionFile
       => \E c \in Classes : result[c].at = "Saving"

\* C9's case: the game was downloaded over an earlier one and the download
\* died in mid-stream; the ledger holds what it held.
C9_Witness ==
    /\ pc["game"] = "Failed"
    /\ result["game"] = [kind |-> "err", val |-> "Download error", at |-> "Returned"]
    /\ files[GameDownloadPath] # initial.files[GameDownloadPath]
    /\ versionFile = VersionFileOf(EarlierVersions)

\* C10 (path resolution, as the code has it): get_flash_player_path and
\* get_ruffle_path return the override exactly when one is set and exists
\* on disk; otherwise they return the default path when the application
\* directory resolves and the directory's error when it does not, whether
\* the override is unset or stale.
C10_OverrideOnlyIfExists ==
    LET s == lastPath.settings
        Resolved(o, bin) ==
            /\ (lastPath.res = Ok(o)) <=> (o # None /\ Exists(o))
            /\ ~(o # None /\ Exists(o))
               => lastPath.res = IF appDirOk THEN Ok(bin) ELSE Err(AppDirError)
    IN /\ lastPath.cmd = "get_flash_path" => Resolved(s.flash_player_path, FlashBin)
       /\ lastPath.cmd = "get_ruffle_path" => Resolved(s.ruffle_path, RuffleBin)

\* C10 as the specification words it: with no override, or a stale one, the
\* default path is returned in every case.
C10_DefaultInEveryOtherCase ==
    LET s == lastPath.settings
        Resolved(o, bin) ==
            /\ (lastPath.res = Ok(o)) <=> (o # None /\ Exists(o))
            /\ ~(o # None /\ Exists(o)) => lastPath.res = Ok(bin)
    IN /\ lastPath.cmd = "get_flash_path" => Resolved(s.flash_player_path, FlashBin)
       /\ lastPath.cmd = "get_ruffle_path" => Resolved(s.ruffle_path, RuffleBin)

\* C10's case: the flash override is set, the file it names does not exist,
\* and get_flash_path returned the default path.
C10_Witness ==
    /\ lastPath.cmd = "get_flash_path"
    /\ lastPath.settings.flash_player_path = CustomFlash
    /\ ~Exists(CustomFlash)
    /\ lastPath.res = Ok(FlashBin)

\* C11 (poison recovery): no command that takes the settings lock panics on
\* a poisoned mutex, and get_settings returns the value last written.
C11_PoisonRecovered ==
    /\ lastPath.res # Panicked("PoisonError")
    /\ lastPath.cmd = "get_settings" => lastPath.settings = settings

\* C12 (lock scope): no command is about to probe or write the file system
\* or to spawn a process while it holds the settings guard.
C12_LockNotHeldAcrossIO ==
    running.at \in {"probing", "writing", "spawning"} => ~mutex.held

\* C13 (format by suffix): an archive name ending in .zip goes to the zip
\* extractor, one ending in .tar.gz or .tgz to the tar.gz extractor, and
\* download_ruffle fails with the unsupported-format error, at its
\* extraction stage, exactly for the other suffixes.
C13_FormatBySuffix ==
    /\ Extractor(".zip") = "zip"
    /\ Extractor(".tar.gz") = "tar.gz"
    /\ Extractor(".tgz") = "tar.gz"
    /\ Extractor(".bin") = "unsupported"
    /\ (pc["ruffle"] = "Failed" /\ result["ruffle"].at = "Extracting"
        /\ result["ruffle"].val = "Unsupported archive format")
       => local["ruffle"].suffix \notin {".zip", ".tar.gz", ".tgz"}
    /\ pc["ruffle"] \in {"PostProcessing", "Publishing", "Saving", "Complete"}
       => local["ruffle"].suffix \in {".zip", ".tar.gz", ".tgz"}

\* C14 (disk image): on macos, once extract_dmg has returned Ok the bundle
\* copied out of the volume is at the installed path and the scratch mount
\* point is gone, whatever the detach did; the command fails in its
\* extraction stage only on a mount-point, attach or copy failure.
C14_DiskImageInstalled ==
    os = "macos" =>
       /\ ( \/ pc["flash"] \in {"Publishing", "Saving", "Complete"}
            \/ pc["flash"] = "Failed" /\ result["flash"].at = "Saving" )
          => /\ files[FlashBin] = Directory
             /\ ~Exists(MountPoint)
       /\ (pc["flash"] = "Failed" /\ result["flash"].at = "Extracting")
          => result["flash"].val \in {"Failed to create mount point",
                                      "hdiutil attach failed",
                                      "Failed to copy app"}

\* The path download_flash and download_ruffle make executable.
ExpectedBinary(c) == IF c = "flash" THEN FlashBin ELSE RuffleInstalled

C16_RunningTotal ==
    [][\A c \in Classes :
          events'[c].streamed # events[c].streamed
          => /\ events'[c].last.downloaded = downloaded'[c]
             /\ downloaded'[c] >= downloaded[c]
             /\ (events[c].last.status = "Downloading..."
                 /\ attempt'[c] = attempt[c])
                => events'[c].last.downloaded >= events[c].last.downloaded]_vars

\* Two streaming events of one attempt, the second counting both chunks.
C16_Witness ==
    /\ events["game"].streamed["primary"] >= 2
    /\ events["game"].last.status = "Downloading..."
    /\ events["game"].last.downloaded = downloaded["game"]
    /\ downloaded["game"] >= 2

\* C17 (percentage): a streaming event carries a percentage within 0..100
\* that is the floor of bytes_downloaded * 100 / bytes_total when the total
\* is known, and 0 when it is not.
C17_PercentIsFloor ==
    \A c \in Classes :
       events[c].last.status = "Downloading..."
       => /\ events[c].last.progress \in 0..100
          /\ events[c].last.progress =
                IF events[c].last.total > 0
                THEN (events[c].last.downloaded * 100) \div events[c].last.total
                ELSE 0

\* The fallback scenario: the primary URL answered 500, the fallback
\* attempt went through and download_flash completed.
FallbackScenario ==
    /\ pc["flash"] = "Complete"
    /\ attempt["flash"] = "fallback"
    /\ local["flash"].primary_attempt.val = "HTTP error: 500 Internal Server Error"

\* What the scenario leaves apart from the milestone count: no streaming
\* event of the primary attempt, the ledger saved with the configured
\* version, the path returned and, where the download is the runtime itself
\* (windows), the destination holding a whole body and no temp file.
ScenarioOutcome ==
    /\ events["flash"].streamed["primary"] = 0
    /\ events["flash"].last = Milestone("flash_player", 100, "Download complete")
    /\ requests["flash"] = << PrimaryUrl, fallback_url >>
    /\ versionFile.kind = "ok"
    /\ versionFile.v.flash_player = FallbackVersion
    /\ result["flash"].kind = "ok" /\ result["flash"].val = FlashBin
    /\ os = "windows"
       => /\ files[FlashDownloadPath].complete
          /\ ~Exists(FlashTmp)
          /\ events["flash"].streamed["fallback"] > 0
             <=> files[FlashDownloadPath].len > 0

C19_EveryTransitionEmits ==
    [][\A c \in Classes :
          (pc'[c] # pc[c]
           /\ pc'[c] \in {"Locating", "Downloading", "Extracting",
                          "PostProcessing", "Publishing", "Complete", "Failed"})
          => events'[c].milestones > events[c].milestones]_vars

\* C20 (best-effort delivery): a step in which the delivery of an event
\* fails does not fail the command, and a command whose deliveries failed
\* completes as one whose deliveries all succeeded: it returns its path and
\* the ledger holds what it saved; a failed command's error is never a
\* delivery's.
C20_DeliveryIgnored ==
    [][\A c \in Classes :
          /\ (events'[c].lost /\ ~events[c].lost)
             => /\ pc'[c] \notin {"Failed", "Aborted"}
                /\ result'[c].kind # "err"
          /\ pc'[c] = "Complete"
             => /\ result'[c].kind = "ok"
                /\ versionFile' = VersionFileOf(local'[c].versions)
          /\ result'[c].kind = "err" => result'[c].val # "emit failed"]_vars

\* A streaming event and the completion event were lost, and the game is
\* installed and recorded.
C20_Witness ==
    /\ pc["game"] = "Complete"
    /\ events["game"].lost
    /\ events["game"].streamed["primary"] > 0
    /\ result["game"].kind = "ok"
    /\ files[GameDownloadPath].complete
    /\ versionFile = VersionFileOf(local["game"].versions)

C22_DownloadsTerminate ==
    \A c \in Classes :
       (pc[c] \in {"Downloading", "Unanswered", "Streaming", "Stalled"})
       ~> (pc[c] \in {"Returned", "Failed", "Extracting", "PostProcessing",
                      "Publishing"})

\* C23 (the temp file of an attempt): while a flash attempt streams, its
\* temp file holds the bytes of this attempt and no others; an attempt of
\* any class that returned Ok has left at its destination a whole file of
\* exactly the bytes it received, and a flash attempt no temp file; a flash
\* attempt that returned an error, or was
\* dropped, has changed no path but the one temp file beside its
\* destination.
C23_TempRecreated ==
    /\ pc["flash"] = "Streaming"
       => files[FlashTmp] = [NewFile EXCEPT !.len = downloaded["flash"]]
    /\ \A c \in Classes :
          (pc[c] = "Returned" /\ ret[c].kind = "ok")
          => files[DownloadDest(c)] =
                [NewFile EXCEPT !.len = downloaded[c], !.complete = TRUE]
    /\ (pc["flash"] = "Returned" /\ ret["flash"].kind = "ok") => ~Exists(FlashTmp)
    /\ ( \/ pc["flash"] = "Returned" /\ ret["flash"].kind = "err"
         \/ pc["flash"] = "Aborted"
         \/ pc["flash"] = "Failed" /\ result["flash"].at = "Returned" )
       => /\ FlashTmp = WithExtensionPart(FlashDownloadPath)
          /\ \A p \in Paths \ {FlashTmp} : files[p] = initial.files[p]

\* The primary attempt broke mid-stream over an orphaned temp file of an
\* earlier run, and the fallback attempt published its own bytes.
C23_Witness ==
    /\ initial.files[FlashTmp] = OrphanedTemp
    /\ attempt["flash"] = "fallback"
    /\ local["flash"].primary_attempt.val = "Download error"
    /\ pc["flash"] = "Returned" /\ ret["flash"].kind = "ok"
    /\ downloaded["flash"] = 2
    /\ files[FlashDownloadPath].len = 2

\* C24 (archive cleanup): the step that leaves the extraction stage either
\* fails, with the archive still in place and whole, the ledger as it was
\* and for ruffle the extraction or unsupported-format error, or goes on,
\* with the archive removed or, the removal having failed, still in place;
\* an archive with the suffix .bin never gets past extraction.
C24_ArchiveRemovedAfterExtraction ==
    [][\A c \in {"flash", "ruffle"} :
          (pc[c] = "Extracting" /\ pc'[c] # "Extracting")
          => /\ files[DownloadDest(c)].complete
             /\ IF pc'[c] = "Failed"
                THEN /\ files'[DownloadDest(c)] = files[DownloadDest(c)]
                     /\ versionFile' = initial.versionFile
                     /\ result'[c].kind = "err"
                ELSE /\ files'[DownloadDest(c)] \in {Absent, files[DownloadDest(c)]}
                     /\ pc'[c] \in {"PostProcessing", "Publishing"}
                     /\ c = "ruffle" => local[c].suffix # ".bin"]_vars

\* The archive could not be removed after the extraction, and the runtime
\* was installed and recorded all the same.
C24_Witness ==
    /\ pc["ruffle"] = "Complete"
    /\ initial.files[RuffleDownloadPath] = Absent
    /\ Exists(RuffleDownloadPath)
    /\ Exists(RuffleInstalled)
    /\ versionFile = VersionFileOf(local["ruffle"].versions)

\* C25 (unknown game id): download_game with an id the catalog does not
\* hold has failed with the not-configured error before its first side
\* effect: no request, no event, no file or directory, the ledger as it was.
C25_UnknownGameFailsFirst ==
    (pc["game"] # "Idle" /\ local["game"].id \notin GameCatalog)
    => /\ pc["game"] = "Failed"
       /\ result["game"] = [kind |-> "err", at |-> "Idle",
                            val |-> "Game not found in configuration"]
       /\ requests["game"] = << >>
       /\ events["game"] = NoEvents
       /\ files = initial.files
       /\ versionFile = initial.versionFile

\* An id outside the catalog on a machine with no application directory
\* yet; a catalog id on the same machine does create the directory.
C25_Witness ==
    /\ local["game"].id = "PTD9"
    /\ pc["game"] = "Failed"
    /\ ~Exists(GamesDir)
    /\ ~appDirOk

\* C26 (one acquisition per class): two download_flash calls are never in
\* flight at once.
C26_OneInFlight ==
    \A i, j \in Invocations : (i # j /\ InFlight(i)) => ~InFlight(j)

\* C27 (ledger updates of different classes): once download_flash and
\* download_game have both returned Ok, version.json holds the version
\* each of them wrote.
C27_BothVersionsKept ==
    (result["flash"].kind = "ok" /\ result["game"].kind = "ok")
    => /\ versionFile.kind = "ok"
       /\ versionFile.v.flash_player = FallbackVersion
       /\ versionFile.v.games[local["game"].id] # 0

\* C28 (ledger frame): after a command has returned Ok, every ledger entry
\* other than the one it installed is what version.json held before the
\* command (an unparsable document holds no entries).
C28_OtherEntriesKept ==
    \A c \in Classes :
      result[c].kind = "ok"
      => /\ versionFile.kind = "ok"
         /\ c # "flash" =>
              versionFile.v.flash_player = initial.versionFile.v.flash_player
         /\ c # "ruffle" => versionFile.v.ruffle = initial.versionFile.v.ruffle
         /\ \A g \in GameCatalog :
              (c # "game" \/ g # local["game"].id)
              => versionFile.v.games[g] = initial.versionFile.v.games[g]

\* C29 (settings in memory and on disk): a save_settings that returns Ok
\* leaves settings.json holding the settings get_settings returns; one that
\* returns Err leaves the settings in memory as they were before the call.
C29_SettingsAgree ==
    [][lastPath'.cmd = "save_settings"
       => /\ lastPath'.res.kind = "ok" => settingsFile' = settings'
          /\ lastPath'.res.kind = "err" => settings' = settings]_vars

\* C30 (is_game_downloaded): it is true once download_game has returned
\* Ok, and when it is true of a game whose download has failed or was
\* dropped, the file it found holds a whole body.
C30_DownloadedMeansWhole ==
    \A g \in GameIds :
      /\ (result["game"].kind = "ok" /\ local["game"].id = g)
         => is_game_downloaded(g)
      /\ (pc["game"] \in {"Failed", "Aborted"} /\ is_game_downloaded(g))
         => files[GamePath(g)].complete

====
